---- MODULE Spec2Model ----
(***************************************************************************)
(* comfy-print: the resilient output queue of src/src/async_impl.rs and    *)
(* its single-flight drain worker.  Threads are interleaved at the points  *)
(* where the code takes or releases a lock, writes to a stream or a file,  *)
(* or creates a thread.                                                    *)
(***************************************************************************)
EXTENDS Integers, Sequences, FiniteSets, TLC

\* ---------------------------------------------------------------- bounds
NumSubmitters == 2      \* threads calling comfy_print_async
MaxWorkers == 2         \* threads thread::Builder::spawn can still create
MaxMsgs == 2            \* calls of comfy_print_async in one run
MaxQ == 2               \* largest max_queue_length tried
MaxR == 1               \* largest max_retries tried
WriteCap == 2           \* writesInCall saturates here
MaxFails == 2           \* writes the operating system refuses in one run; failed
                        \* saturates here
MaxEnvVars == 1         \* environment variables of tunables set at one time
MaxDiagQ == 4           \* largest max_queue_length tried where diagnostics fill
                        \* the queue

None == 0
Submitters == 1..NumSubmitters
Workers == (NumSubmitters + 1)..(NumSubmitters + MaxWorkers)
Threads == Submitters \cup Workers

\* ---------------------------------------------------------------- messages
\* message.rs: a Message is (string, output, should_append_line).  The text
\* of a user message is its submission number (>= 1); the text of a
\* synthetic diagnostic is one of the negative tags below.
standard(s) == [string |-> s, output |-> "Stdout", should_append_line |-> FALSE]
standard_ln(s) == [string |-> s, output |-> "Stdout", should_append_line |-> TRUE]
error(s) == [string |-> s, output |-> "Stderr", should_append_line |-> FALSE]
error_ln(s) == [string |-> s, output |-> "Stderr", should_append_line |-> TRUE]

ErrFastPath == -1       \* "comfy_print_async(): Failed to print message, creating queue..."
ErrPrintQueue == -2     \* "print_until_empty(): Failed to print first message in queue."
ErrSpawn == -3          \* "check_state(): Failed to create a thread to print the queue."
ErrLogFile == -4        \* "on_max_retries_reached(): Failed to write to log file."

NoMsg == standard(0)
IsUser(m) == m.string >= 1

\* What the submitting threads print: comfy_println!("{n}") (macros.rs).
UserMessages(n) == {standard_ln(n)}

\* ---------------------------------------------------------------- Vec<Message>
insert0(q, m) == <<m>> \o q
push(q, m) == Append(q, m)
remove0(q) == IF Len(q) = 0 THEN q ELSE Tail(q)    \* on an empty Vec remove(0) panics
pop(q) == IF Len(q) = 0 THEN q ELSE SubSeq(q, 1, Len(q) - 1)
\* A loop test that never sees the end of the queue.
is_empty_never(q) == FALSE

\* A loop test that takes a queue of one message for an empty one.
is_empty_at_one(q) == Len(q) <= 1

is_empty(q) == Len(q) = 0

Range(q) == {q[i] : i \in 1..Len(q)}
UserIds(q) == {q[i].string : i \in {j \in 1..Len(q) : IsUser(q[j])}}

\* ---------------------------------------------------------------- state
VARIABLES
    QUEUE,          \* async_impl.rs:13, the Vec behind the FairMutex
    queueLock,      \* thread holding the QUEUE mutex, or None
    PRINTING_STATE, \* async_impl.rs:15 (STATE), the PrintingState behind the FairMutex
    stateLock,      \* thread holding the STATE mutex, or None
    pc,             \* where each thread is
    msg,            \* the Message a thread holds outside the queue
    callId,         \* per submitter: the submission its current call is for, or None
    session,        \* per thread: max_retries and retries of print_until_empty, and the
                    \* JoinHandle check_state got from spawn
    config,         \* the tunables of src/src/config
    TOGGLE_WRITE_FAIL, FORCE_WRITE_FAIL,   \* what makes try_write fail
    written,        \* what reached stdout and stderr, in time order
    logFile,        \* what was appended to the log file
    nextId,         \* number of the next submission
    completed,      \* submissions whose call has returned
    doneBefore,     \* per submission: the submissions that had returned when it began
    failed,         \* number of stream writes that failed so far
    dropped,        \* user messages discarded by a capacity decision
    writesInCall,   \* per submitter: try_write calls made by the current call
    unserved,       \* submissions queued since the last failed write whose call has
                    \* not started a drainer
    queued,         \* submissions that were put into the queue
    backlog,        \* the queue, and the failed writes so far, found by the submission
                    \* that follows the failed sessions of SpecBacklog
    sessionStart,   \* per thread: the queue, and the submissions queued so far, when
                    \* its drain session began
    panicked,       \* a remove(0) or [0] ran on an empty Vec
    CURRENT,        \* what the statics CURRENT of src/src/config hold
    env,            \* the process environment, per variable of a tunable
    call            \* the last call of the configuration API: arguments and result

vars == <<QUEUE, queueLock, PRINTING_STATE, stateLock, pc, msg, callId, session, config,
          TOGGLE_WRITE_FAIL, FORCE_WRITE_FAIL, written, logFile, nextId,
          completed, doneBefore, failed, dropped, writesInCall, unserved, queued,
          sessionStart, backlog, panicked, CURRENT, env, call>>

cfgVars == <<CURRENT, env, call>>

Idle == [kind |-> "Idle", handle |-> None]
Synchronous == [kind |-> "Synchronous", handle |-> None]
Threaded(w) == [kind |-> "Threaded", handle |-> w]

\* printing_state.rs:9-17; JoinHandle::is_finished is true once the thread's
\* closure has returned (or unwound).
is_finished(w) == pc[w] \in {"finished", "panicked"}
\* An is_busy that does not look at the worker thread.
is_busy_ignores_thread(s) == s.kind = "Synchronous"

\* An is_busy that takes Synchronous for Idle.
is_busy_ignores_synchronous(s) == s.kind = "Threaded" /\ ~is_finished(s.handle)

is_busy(s) ==
    CASE s.kind = "Idle" -> FALSE
      [] s.kind = "Threaded" -> ~is_finished(s.handle)
      [] s.kind = "Synchronous" -> TRUE

NoStart == [queue |-> <<>>, queued |-> {}]
NoBacklog == [queue |-> <<>>, failed |-> 0]

NoSession == [max_retries |-> 0, retries |-> 0, handle |-> None]

\* The tunables of src/src/config.  A tunable that the chosen policies never
\* read is left at one value: max_retries and on_max_retries_reached under
\* on_queue_printing_fail = Return, log_io_path under on_max_retries_reached = Return.
Configs ==
    {c \in [max_queue_length : 0..MaxQ,
            max_retries : 0..MaxR,
            on_queue_full : {"KeepNewest", "KeepOldest"},
            on_queue_printing_fail : {"TryUntilMaxRetries", "Return"},
            on_max_retries_reached : {"Return", "WriteToDisk"},
            allow_logging_print_failures : BOOLEAN,
            log_io_path : {"unset", "good", "flaky"}] :
        /\ c.on_queue_printing_fail = "Return" =>
              c.max_retries = 0 /\ c.on_max_retries_reached = "Return"
        /\ c.on_max_retries_reached = "Return" => c.log_io_path = "unset"}

\* ---------------------------------------------------------------- the configuration store
Tunables == {"max_retries", "max_queue_length", "allow_logging_print_failures",
             "on_queue_printing_fail", "on_max_retries_reached", "log_io_path",
             "on_queue_full"}

Ok(value) == [kind |-> "Ok", value |-> value]
Err(kind) == [kind |-> kind]

\* A cast that gives every variant the byte 1.
On_QueuePrintingFail_as_one(v) == 1

\* on_queue_printing_fail.rs:19-26 and 50: new_value as u8.
On_QueuePrintingFail_as_u8(v) ==
    CASE v = "TryUntilMaxRetries" -> 0
      [] v = "Return" -> 1

\* on_queue_printing_fail.rs:41-46
on_queue_printing_fail_get(store) ==
    IF store.on_queue_printing_fail = 1 THEN "Return" ELSE "TryUntilMaxRetries"

\* on_queue_printing_fail.rs:28-38
On_QueuePrintingFail_from_str(s) ==
    CASE s \in {"0", "TryUntilMaxRetries"} -> Ok("TryUntilMaxRetries")
      [] s \in {"1", "Return"} -> Ok("Return")
      [] OTHER -> Err("ParseError")

\* on_max_retries_reached.rs:18-25 and 49: new_value as u8.
On_MaxRetriesReached_as_u8(v) ==
    CASE v = "Return" -> 0
      [] v = "WriteToDisk" -> 1

\* on_max_retries_reached.rs:40-45
on_max_retries_reached_get(store) ==
    IF store.on_max_retries_reached = 1 THEN "WriteToDisk" ELSE "Return"

\* on_max_retries_reached.rs:27-37
On_MaxRetriesReached_from_str(s) ==
    CASE s \in {"0", "Return"} -> Ok("Return")
      [] s \in {"1", "WriteToDisk"} -> Ok("WriteToDisk")
      [] OTHER -> Err("ParseError")

\* str::parse::<usize> (env_vars.rs:44-48) on the texts tried: decimal digits
\* with an optional plus sign.
usize_from_str(s) ==
    CASE s = "0" -> Ok(0)
      [] s = "1" -> Ok(1)
      [] s = "+1" -> Ok(1)
      [] s = "2" -> Ok(2)
      [] OTHER -> Err("ParseError")

\* str::parse::<bool> (env_vars.rs:50): exactly "true" or "false".
bool_from_str(s) ==
    CASE s = "true" -> Ok(TRUE)
      [] s = "false" -> Ok(FALSE)
      [] OTHER -> Err("ParseError")

\* str::parse::<String> (env_vars.rs:59) never fails.
String_from_str(s) == Ok(s)

\* config/on_queue_full.rs: the variant names parse.
On_QueueFull_from_str(s) ==
    IF s \in {"KeepNewest", "KeepOldest"} THEN Ok(s) ELSE Err("ParseError")

\* log_io_path.rs:32-33, Path::parent on the paths tried: none for the empty
\* path and for the root.
NoParent == [some |-> FALSE, dir |-> ""]
parent(p) ==
    CASE p = "test.txt" -> [some |-> TRUE, dir |-> ""]
      [] p = "logs/full.txt" -> [some |-> TRUE, dir |-> "logs"]
      [] OTHER -> NoParent

\* What the file system answers at log_io_path.rs:39-47: the directory exists,
\* is created, cannot be created, or cannot be examined.
DirOutcomes == {"exists", "created", "create_failed", "check_failed"}

\* How the file at a stored path behaves when the flush opens and writes it
\* (log_io_path.rs:56-64): the empty default path opens nothing.
FileAt(p) ==
    CASE p = "" -> "unset"
      [] p = "logs/full.txt" -> "flaky"
      [] OTHER -> "good"

PathTo(file) ==
    CASE file = "unset" -> ""
      [] file = "good" -> "test.txt"
      [] file = "flaky" -> "logs/full.txt"

\* What the get functions return for a store; for the path, how its file behaves.
Gets(store) ==
    [max_retries |-> store.max_retries,
     max_queue_length |-> store.max_queue_length,
     on_queue_full |-> store.on_queue_full,
     on_queue_printing_fail |-> on_queue_printing_fail_get(store),
     on_max_retries_reached |-> on_max_retries_reached_get(store),
     allow_logging_print_failures |-> store.allow_logging_print_failures,
     log_io_path |-> FileAt(store.log_io_path)]

\* The store once set has been called with each value of c.
SetUp(c) ==
    [max_retries |-> c.max_retries,
     max_queue_length |-> c.max_queue_length,
     on_queue_full |-> c.on_queue_full,
     on_queue_printing_fail |-> On_QueuePrintingFail_as_u8(c.on_queue_printing_fail),
     on_max_retries_reached |-> On_MaxRetriesReached_as_u8(c.on_max_retries_reached),
     allow_logging_print_failures |-> c.allow_logging_print_failures,
     log_io_path |-> PathTo(c.log_io_path)]

\* log_io_path.rs:17-21: the stored path is appended to the caller's string.
log_io_path_get(store, append_in_me) == append_in_me \o store.log_io_path

\* A setter that stores the path before it examines the directory.
log_io_path_set_stores_first(store, new_value, dir) ==
    [ret |-> IF ~parent(new_value).some THEN Err("InvalidInput")
             ELSE IF dir \in {"create_failed", "check_failed"} THEN Err(dir)
             ELSE Ok(new_value),
     store |-> [store EXCEPT !.log_io_path = new_value]]

\* log_io_path.rs:31-54: the result, and the store afterwards.
log_io_path_set(store, new_value, dir) ==
    IF ~parent(new_value).some THEN [ret |-> Err("InvalidInput"), store |-> store]
    ELSE IF dir \in {"create_failed", "check_failed"} THEN [ret |-> Err(dir), store |-> store]
    ELSE [ret |-> Ok(new_value), store |-> [store EXCEPT !.log_io_path = new_value]]

NoVar == [set |-> FALSE, value |-> ""]
NoCall == [op |-> "none"]

\* env_vars.rs:83-92; parsed is value.parse::<T>() of the variable's text.
get_var(e, var_name, parsed) ==
    IF e[var_name].set THEN parsed ELSE Err("VarError")

\* An inspect that stores the type's zero on an error.
inspect_or_zero(result, old, stored, zero) ==
    IF result.kind = "Ok" THEN stored ELSE zero

\* env_vars.rs:44-57 and 70-71, Result::inspect: the setter stores on Ok only;
\* stored is what it stores, zero the zero of the type.
inspect(result, old, stored, zero) ==
    IF result.kind = "Ok" THEN stored ELSE old

\* env_vars.rs:43-81: the per-variable results and the store afterwards.
load_all(store, e, dir) ==
    LET text(name) == e[name].value
        max_retries == get_var(e, "max_retries", usize_from_str(text("max_retries")))
        max_queue_length ==
            get_var(e, "max_queue_length", usize_from_str(text("max_queue_length")))
        allow_logging_print_failures ==
            get_var(e, "allow_logging_print_failures",
                    bool_from_str(text("allow_logging_print_failures")))
        on_retry_printing_fail ==
            get_var(e, "on_queue_printing_fail",
                    On_QueuePrintingFail_from_str(text("on_queue_printing_fail")))
        on_max_retries_reached ==
            get_var(e, "on_max_retries_reached",
                    On_MaxRetriesReached_from_str(text("on_max_retries_reached")))
        path == get_var(e, "log_io_path", String_from_str(text("log_io_path")))
        set_path == log_io_path_set(store, path.value, dir)
        log_io_path == IF path.kind # "Ok" THEN path
                       ELSE IF set_path.ret.kind = "Ok" THEN path
                       ELSE Err("IOError")
        on_push_queue_full ==
            get_var(e, "on_queue_full", On_QueueFull_from_str(text("on_queue_full")))
    IN  [result |->
            [max_retries |-> max_retries,
             max_queue_length |-> max_queue_length,
             allow_logging_print_failures |-> allow_logging_print_failures,
             on_queue_printing_fail |-> on_retry_printing_fail,
             on_max_retries_reached |-> on_max_retries_reached,
             log_io_path |-> log_io_path,
             on_queue_full |-> on_push_queue_full],
         store |->
            [max_retries |->
                 inspect(max_retries, store.max_retries, max_retries.value, 0),
             max_queue_length |->
                 inspect(max_queue_length, store.max_queue_length,
                         max_queue_length.value, 0),
             allow_logging_print_failures |->
                 inspect(allow_logging_print_failures,
                         store.allow_logging_print_failures,
                         allow_logging_print_failures.value, FALSE),
             on_queue_printing_fail |->
                 inspect(on_retry_printing_fail, store.on_queue_printing_fail,
                         On_QueuePrintingFail_as_u8(on_retry_printing_fail.value), 0),
             on_max_retries_reached |->
                 inspect(on_max_retries_reached, store.on_max_retries_reached,
                         On_MaxRetriesReached_as_u8(on_max_retries_reached.value), 0),
             log_io_path |-> IF path.kind = "Ok" THEN set_path.store.log_io_path
                             ELSE store.log_io_path,
             on_queue_full |->
                 inspect(on_push_queue_full, store.on_queue_full,
                         on_push_queue_full.value, "KeepNewest")]]

\* The state before the first call, the tunables being one of configs.
InitWith(configs) ==
    /\ QUEUE = <<>>
    /\ queueLock = None
    /\ PRINTING_STATE = Idle
    /\ stateLock = None
    /\ pc = [t \in Threads |-> IF t \in Submitters THEN "idle" ELSE "unborn"]
    /\ msg = [t \in Threads |-> NoMsg]
    /\ callId = [t \in Submitters |-> None]
    /\ session = [t \in Threads |-> NoSession]
    /\ config \in configs
    /\ TOGGLE_WRITE_FAIL = FALSE
    /\ FORCE_WRITE_FAIL = FALSE
    /\ written = <<>>
    /\ logFile = <<>>
    /\ nextId = 1
    /\ completed = {}
    /\ doneBefore = [i \in 1..MaxMsgs |-> {}]
    /\ failed = 0
    /\ dropped = {}
    /\ writesInCall = [t \in Submitters |-> 0]
    /\ unserved = {}
    /\ queued = {}
    /\ sessionStart = [t \in Threads |-> NoStart]
    /\ backlog = NoBacklog
    /\ panicked = FALSE
    /\ CURRENT = SetUp(config)
    /\ env = [name \in Tunables |-> NoVar]
    /\ call = NoCall

Init == InitWith(Configs)

\* ---------------------------------------------------------------- helpers
Min(a, b) == IF a < b THEN a ELSE b

\* A rendering that ends every message with a line feed.
Display_with_line_feed(m) == [output |-> m.output, string |-> m.string, lf |-> 1]

\* Display for Message (message.rs:67-75): the text and the line feeds after it.
Display(m) == [output |-> m.output, string |-> m.string,
               lf |-> IF m.should_append_line THEN 1 ELSE 0]

\* async_impl.rs:276-285 (and 260-272, which takes the lock itself)
\* A diagnostic inserted without the length test.
insert_write_err_unbounded(q, tag) ==
    IF config.allow_logging_print_failures = FALSE THEN q
    ELSE insert0(q, error_ln(tag))

\* A diagnostic inserted whatever allow_logging_print_failures says.
insert_write_err_unasked(q, tag) ==
    IF Len(q) < config.max_queue_length THEN insert0(q, error_ln(tag)) ELSE q

owned_try_insert_write_err(q, tag) ==
    IF config.allow_logging_print_failures = FALSE THEN q
    ELSE IF Len(q) < config.max_queue_length THEN insert0(q, error_ln(tag))
    ELSE q

\* Every submission goes through the queue.
takes_fast_path_never(q) == FALSE

\* async_impl.rs:50, the test that selects the fast path
takes_fast_path(q) == Len(q) = 0

\* A submission that never looks at max_queue_length.
enqueue_unbounded(q, m) == push(q, m)

\* KeepNewest evicts the newest entry (pop) instead of the oldest (remove(0)).
enqueue_evicts_tail(q, m) ==
    IF Len(q) < config.max_queue_length THEN push(q, m)
    ELSE IF config.on_queue_full = "KeepNewest" THEN push(pop(q), m)
    ELSE q

\* async_impl.rs:68-73, the overflow policy of a submission
enqueue(q, m) ==
    IF Len(q) < config.max_queue_length THEN push(q, m)
    ELSE IF config.on_queue_full = "KeepNewest" THEN push(remove0(q), m)
    ELSE q

enqueue_panics(q) ==
    /\ ~(Len(q) < config.max_queue_length)
    /\ config.on_queue_full = "KeepNewest"
    /\ Len(q) = 0

\* The failed message is not put into the queue.
queue_failed_drops(q, m) == owned_try_insert_write_err(q, ErrFastPath)

\* async_impl.rs:59-61, after the fast-path write failed
queue_failed(q, m) == owned_try_insert_write_err(insert0(q, m), ErrFastPath)

\* The failed message is put back at the tail (push) instead of the head.
reinsert_at_tail(q, m) ==
    LET q1 == IF Len(q) < config.max_queue_length THEN push(q, m)
              ELSE IF config.on_queue_full = "KeepOldest" THEN push(pop(q), m)
              ELSE q
    IN owned_try_insert_write_err(q1, ErrPrintQueue)

\* async_impl.rs:156-169
reinsert_message(q, m) ==
    LET q1 == IF Len(q) < config.max_queue_length THEN insert0(q, m)
              ELSE IF config.on_queue_full = "KeepOldest" THEN insert0(pop(q), m)
              ELSE q
    IN owned_try_insert_write_err(q1, ErrPrintQueue)

\* async_impl.rs:209-256, try_write.  os_err: the operating system refuses the
\* write (write! or flush returns Err).  In the build under test (226-240) a
\* write also fails while TOGGLE_WRITE_FAIL is set, and once after
\* FORCE_WRITE_FAIL was set.
try_write_fails(os_err) == TOGGLE_WRITE_FAIL \/ FORCE_WRITE_FAIL \/ os_err

emit(log, m) == Append(log, Display(m))

try_write(m, os_err) ==
    /\ FORCE_WRITE_FAIL' = IF TOGGLE_WRITE_FAIL THEN FORCE_WRITE_FAIL ELSE FALSE
    /\ written' = IF try_write_fails(os_err) THEN written ELSE emit(written, m)
    /\ failed' = IF try_write_fails(os_err) THEN Min(failed + 1, MaxFails) ELSE failed
    /\ UNCHANGED TOGGLE_WRITE_FAIL

\* Result::inspect in place of inspect_err: the closure runs after a successful
\* write.
inspect_ok(write_failed) == ~write_failed

\* async_impl.rs:53, Result::inspect_err: the closure that queues the message
\* runs when the write failed.
inspect_err(write_failed) == write_failed

\* User messages that were to go into the queue and are not in it afterwards.
Discarded(before, after) == UserIds(before) \ UserIds(after)

\* The positions of the drain loop (print_until_empty and what it calls).
DrainPcs == {"print_until_empty", "queue_write", "reinsert_retry", "reinsert_return",
             "on_max_retries", "flush_lock", "flush_loop", "flush_write"}
InDrainLoop(t) == pc[t] \in DrainPcs

\* Where a thread is once print_until_empty has returned to start_printing_queue's caller.
AfterSession(t) == IF t \in Workers THEN "returned" ELSE "sync_reset"

\* comfy_print_async returns (async_impl.rs:80 and the returns of check_state).
Return(t, pcs) ==
    /\ pc' = [pcs EXCEPT ![t] = "idle"]
    /\ completed' = completed \cup {callId[t]}
    /\ callId' = [callId EXCEPT ![t] = None]
    /\ writesInCall' = [writesInCall EXCEPT ![t] = 0]

\* Positions a drain session is in only after one of its writes failed.
FailurePcs == {"reinsert_retry", "reinsert_return", "on_max_retries",
               "flush_lock", "flush_loop", "flush_write"}

\* unserved after submission id was to be put into the queue q: id is watched
\* when it is in q and no drain session is handling a failed write.
Watch(id, q) ==
    IF id \in UserIds(q) /\ \A u \in Threads : pc[u] \notin FailurePcs
    THEN unserved \cup {id} ELSE unserved

\* ---------------------------------------------------------------- comfy_print_async
\* async_impl.rs:46-51 and 67-75: lock the queue, look at its length, then either
\* leave for the fast path or apply the overflow policy; unlock.
print_message(t, m) ==
    /\ pc[t] = "idle"
    /\ nextId <= MaxMsgs
    /\ queueLock = None
    /\ IF takes_fast_path(QUEUE)
       THEN /\ msg' = [msg EXCEPT ![t] = m]
            /\ pc' = [pc EXCEPT ![t] = "try_write"]
            /\ UNCHANGED <<QUEUE, dropped, panicked, unserved, queued>>
       ELSE /\ QUEUE' = enqueue(QUEUE, m)
            /\ UNCHANGED msg
            /\ dropped' = dropped \cup Discarded(push(QUEUE, m), QUEUE')
            /\ panicked' = (panicked \/ enqueue_panics(QUEUE))
            /\ unserved' = Watch(nextId, QUEUE')
            /\ queued' = queued \cup ({nextId} \cap UserIds(QUEUE'))
            /\ pc' = [pc EXCEPT ![t] =
                        IF enqueue_panics(QUEUE) THEN "panicked" ELSE "check_state"]
    /\ callId' = [callId EXCEPT ![t] = nextId]
    /\ doneBefore' = [doneBefore EXCEPT ![nextId] = completed]
    /\ nextId' = nextId + 1
    /\ writesInCall' = [writesInCall EXCEPT ![t] = 0]
    /\ UNCHANGED <<CURRENT, env, sessionStart, queueLock, PRINTING_STATE, stateLock,
                   session, config,
                   TOGGLE_WRITE_FAIL, FORCE_WRITE_FAIL, written, logFile,
                   completed, failed>>

\* comfy_println!("{n}") (macros.rs:100-106): the call with the message of the
\* next submission.
comfy_print_async(t) ==
    /\ \E m \in UserMessages(nextId) : print_message(t, m)
    /\ UNCHANGED call

\* A call of comfy_print_async by thread t.
Submit(t) == comfy_print_async(t) /\ UNCHANGED backlog

\* The failed message is queued whatever max_queue_length is.
FastWriteQueuesAtZero(t, os_err) ==
    /\ pc[t] = "try_write"
    /\ try_write(msg[t], os_err)
    /\ IF ~inspect_err(try_write_fails(os_err))
       THEN /\ Return(t, pc)
            /\ msg' = [msg EXCEPT ![t] = NoMsg]
       ELSE /\ pc' = [pc EXCEPT ![t] = "insert_failed"]
            /\ writesInCall' = [writesInCall EXCEPT ![t] = Min(@ + 1, WriteCap)]
            /\ UNCHANGED <<msg, completed, callId>>
    /\ unserved' = IF try_write_fails(os_err) THEN {} ELSE unserved
    /\ UNCHANGED <<cfgVars, backlog, sessionStart, queued, QUEUE, queueLock,
                   PRINTING_STATE, stateLock,
                   session, config,
                   logFile, nextId, doneBefore, dropped, panicked>>

\* async_impl.rs:53-57: the fast-path write, made without the queue lock.
FastWrite(t, os_err) ==
    /\ pc[t] = "try_write"
    /\ try_write(msg[t], os_err)
    /\ IF ~inspect_err(try_write_fails(os_err))
       THEN /\ Return(t, pc)
            /\ msg' = [msg EXCEPT ![t] = NoMsg]
            /\ UNCHANGED dropped
       ELSE IF config.max_queue_length = 0
       THEN /\ Return(t, pc)
            /\ msg' = [msg EXCEPT ![t] = NoMsg]
            /\ dropped' = dropped \cup {msg[t].string}
       ELSE /\ pc' = [pc EXCEPT ![t] = "insert_failed"]
            /\ writesInCall' = [writesInCall EXCEPT ![t] = Min(@ + 1, WriteCap)]
            /\ UNCHANGED <<msg, dropped, completed, callId>>
    /\ unserved' = IF try_write_fails(os_err) THEN {} ELSE unserved
    /\ UNCHANGED <<cfgVars, backlog, sessionStart, queued, QUEUE, queueLock,
                   PRINTING_STATE, stateLock,
                   session, config,
                   logFile, nextId, doneBefore, panicked>>

\* The failed write is tried again at once instead of queueing the message.
InsertFailedRetries(t) ==
    /\ pc[t] = "insert_failed"
    /\ pc' = [pc EXCEPT ![t] = "try_write"]
    /\ UNCHANGED <<cfgVars, backlog, sessionStart, queued, QUEUE, queueLock,
                   PRINTING_STATE, stateLock,
                   msg, callId, session,
                   config, TOGGLE_WRITE_FAIL, FORCE_WRITE_FAIL, written, logFile,
                   nextId, completed, doneBefore, failed, dropped, writesInCall,
                   unserved, panicked>>

\* async_impl.rs:59-62: put the failed message at the head of the queue.
InsertFailed(t) ==
    /\ pc[t] = "insert_failed"
    /\ queueLock = None
    /\ QUEUE' = queue_failed(QUEUE, msg[t])
    /\ msg' = [msg EXCEPT ![t] = NoMsg]
    /\ pc' = [pc EXCEPT ![t] = "check_state"]
    /\ unserved' = Watch(callId[t], QUEUE')
    /\ queued' = queued \cup ({callId[t]} \cap UserIds(QUEUE'))
    /\ UNCHANGED <<cfgVars, backlog, sessionStart, queueLock, PRINTING_STATE, stateLock, callId,
                   session, config,
                   TOGGLE_WRITE_FAIL, FORCE_WRITE_FAIL, written, logFile, nextId,
                   completed, doneBefore, failed, dropped, writesInCall, panicked>>

\* async_impl.rs:84-85: STATE.try_lock(); when it is taken, return.
TryLockState(t) ==
    /\ pc[t] = "check_state"
    /\ IF stateLock = None
       THEN /\ stateLock' = t
            /\ pc' = [pc EXCEPT ![t] = "state_locked"]
            /\ UNCHANGED <<completed, callId, unserved, writesInCall>>
       ELSE /\ Return(t, pc)
            /\ UNCHANGED <<stateLock, unserved>>
    /\ UNCHANGED <<cfgVars, backlog, sessionStart, queued, QUEUE, queueLock,
                   PRINTING_STATE, msg,
                   session, config,
                   TOGGLE_WRITE_FAIL, FORCE_WRITE_FAIL, written, logFile, nextId,
                   doneBefore, failed, dropped, panicked>>

\* async_impl.rs:87-90: someone is printing already.
FoundBusy(t) ==
    /\ pc[t] = "state_locked"
    /\ is_busy(PRINTING_STATE)
    /\ stateLock' = None
    /\ Return(t, pc)
    /\ UNCHANGED <<cfgVars, backlog, sessionStart, queued, QUEUE, queueLock,
                   PRINTING_STATE, msg,
                   session,
                   config, unserved,
                   TOGGLE_WRITE_FAIL, FORCE_WRITE_FAIL, written, logFile, nextId,
                   doneBefore, failed, dropped, panicked>>

\* async_impl.rs:92, Ok: the new thread exists and may run from now on.
SpawnOk(t) ==
    /\ pc[t] = "state_locked"
    /\ ~is_busy(PRINTING_STATE)
    /\ \E w \in Workers :
        /\ pc[w] = "unborn"
        /\ \A v \in Workers : pc[v] = "unborn" => w <= v
        /\ pc' = [pc EXCEPT ![t] = "spawned", ![w] = "start_printing_queue"]
        /\ session' = [session EXCEPT ![t].handle = w]
    /\ unserved' = unserved \ {callId[t]}
    /\ UNCHANGED <<cfgVars, backlog, sessionStart, queued, QUEUE, queueLock,
                   PRINTING_STATE, stateLock,
                   msg, callId, config,
                   TOGGLE_WRITE_FAIL, FORCE_WRITE_FAIL, written, logFile, nextId,
                   completed, doneBefore, failed, dropped, writesInCall, panicked>>

\* async_impl.rs:95-98: record the handle, unlock, return.
SetThreaded(t) ==
    /\ pc[t] = "spawned"
    /\ PRINTING_STATE' = Threaded(session[t].handle)
    /\ stateLock' = None
    /\ session' = [session EXCEPT ![t] = NoSession]
    /\ Return(t, pc)
    /\ UNCHANGED <<cfgVars, backlog, sessionStart, queued, QUEUE, queueLock, msg, config,
                   TOGGLE_WRITE_FAIL, FORCE_WRITE_FAIL, written, logFile, nextId,
                   doneBefore, failed, dropped, unserved, panicked>>

\* A failed thread creation is ignored: the guard is dropped and the call returns.
SpawnErrGivesUp(t) ==
    /\ pc[t] = "state_locked"
    /\ ~is_busy(PRINTING_STATE)
    /\ stateLock' = None
    /\ Return(t, pc)
    /\ UNCHANGED <<cfgVars, backlog, sessionStart, queued, QUEUE, queueLock, msg,
                   PRINTING_STATE, session, config, unserved,
                   TOGGLE_WRITE_FAIL, FORCE_WRITE_FAIL, written, logFile, nextId,
                   doneBefore, failed, dropped, panicked>>

\* The guard of STATE is kept over the synchronous drain instead of being dropped.
SpawnErrKeepsGuard(t) ==
    /\ pc[t] = "state_locked"
    /\ ~is_busy(PRINTING_STATE)
    /\ PRINTING_STATE' = Synchronous
    /\ pc' = [pc EXCEPT ![t] = "spawn_failed"]
    /\ unserved' = unserved \ {callId[t]}
    /\ UNCHANGED <<cfgVars, backlog, sessionStart, queued, QUEUE, queueLock, msg, callId,
                   session, stateLock,
                   config,
                   TOGGLE_WRITE_FAIL, FORCE_WRITE_FAIL, written, logFile, nextId,
                   completed, doneBefore, failed, dropped, writesInCall, panicked>>

\* async_impl.rs:92, Err, and 99-101: no thread; the caller will print the queue.
SpawnErr(t) ==
    /\ pc[t] = "state_locked"
    /\ ~is_busy(PRINTING_STATE)
    /\ PRINTING_STATE' = Synchronous
    /\ stateLock' = None
    /\ pc' = [pc EXCEPT ![t] = "spawn_failed"]
    /\ unserved' = unserved \ {callId[t]}
    /\ UNCHANGED <<cfgVars, backlog, sessionStart, queued, QUEUE, queueLock, msg, callId,
                   session,
                   config,
                   TOGGLE_WRITE_FAIL, FORCE_WRITE_FAIL, written, logFile, nextId,
                   completed, doneBefore, failed, dropped, writesInCall, panicked>>

\* async_impl.rs:103 (try_insert_write_err, 260-272)
LogSpawnErr(t) ==
    /\ pc[t] = "spawn_failed"
    /\ config.allow_logging_print_failures = TRUE => queueLock = None
    /\ QUEUE' = owned_try_insert_write_err(QUEUE, ErrSpawn)
    /\ pc' = [pc EXCEPT ![t] = "start_printing_queue"]
    /\ UNCHANGED <<cfgVars, backlog, sessionStart, queued, queueLock, PRINTING_STATE,
                   stateLock, msg,
                   callId, session, config,
                   TOGGLE_WRITE_FAIL, FORCE_WRITE_FAIL, written, logFile, nextId,
                   completed, doneBefore, failed, dropped, writesInCall, unserved,
                   panicked>>

\* async_impl.rs:107-109: back to Idle after the synchronous drain; the call returns.
SyncReset(t) ==
    /\ pc[t] = "sync_reset"
    /\ stateLock = None
    /\ PRINTING_STATE' = Idle
    /\ session' = [session EXCEPT ![t] = NoSession]
    /\ Return(t, pc)
    /\ sessionStart' = [sessionStart EXCEPT ![t] = NoStart]
    /\ UNCHANGED <<cfgVars, backlog>>
    /\ UNCHANGED <<queued, QUEUE, queueLock, stateLock, msg, config,
                   TOGGLE_WRITE_FAIL, FORCE_WRITE_FAIL, written, logFile, nextId,
                   doneBefore, failed, dropped, unserved, panicked>>

\* ---------------------------------------------------------------- the drain session
\* A session that locks STATE before it begins.
start_printing_queue_locks_state(t) ==
    /\ pc[t] = "start_printing_queue"
    /\ stateLock = None
    /\ session' = [session EXCEPT ![t] =
                     [max_retries |-> config.max_retries, retries |-> 0, handle |-> None]]
    /\ pc' = [pc EXCEPT ![t] = "print_until_empty"]
    /\ sessionStart' = [sessionStart EXCEPT ![t] = [queue |-> QUEUE, queued |-> queued]]
    /\ UNCHANGED <<cfgVars, backlog>>
    /\ UNCHANGED <<queued, QUEUE, queueLock, PRINTING_STATE, stateLock, msg, callId, config,
                   TOGGLE_WRITE_FAIL, FORCE_WRITE_FAIL, written, logFile, nextId,
                   completed, doneBefore, failed, dropped, writesInCall, unserved,
                   panicked>>

\* async_impl.rs:115-117: max_retries is read here, retries starts at 0.
start_printing_queue(t) ==
    /\ pc[t] = "start_printing_queue"
    /\ session' = [session EXCEPT ![t] =
                     [max_retries |-> config.max_retries, retries |-> 0, handle |-> None]]
    /\ pc' = [pc EXCEPT ![t] = "print_until_empty"]
    /\ sessionStart' = [sessionStart EXCEPT ![t] = [queue |-> QUEUE, queued |-> queued]]
    /\ UNCHANGED <<cfgVars, backlog>>
    /\ UNCHANGED <<queued, QUEUE, queueLock, PRINTING_STATE, stateLock, msg, callId, config,
                   TOGGLE_WRITE_FAIL, FORCE_WRITE_FAIL, written, logFile, nextId,
                   completed, doneBefore, failed, dropped, writesInCall, unserved,
                   panicked>>

\* async_impl.rs:121-130: lock the queue; empty: return; else take the head, unlock.
print_until_empty(t) ==
    /\ pc[t] = "print_until_empty"
    /\ queueLock = None
    /\ IF is_empty(QUEUE)
       THEN /\ pc' = [pc EXCEPT ![t] = AfterSession(t)]
            /\ UNCHANGED <<QUEUE, msg, panicked>>
       ELSE IF Len(QUEUE) = 0
       THEN /\ pc' = [pc EXCEPT ![t] = "panicked"]
            /\ panicked' = TRUE
            /\ UNCHANGED <<QUEUE, msg>>
       ELSE /\ msg' = [msg EXCEPT ![t] = Head(QUEUE)]
            /\ QUEUE' = remove0(QUEUE)
            /\ pc' = [pc EXCEPT ![t] = "queue_write"]
            /\ UNCHANGED panicked
    /\ UNCHANGED <<cfgVars, backlog, sessionStart, queued, queueLock, PRINTING_STATE,
                   stateLock, callId,
                   session, config,
                   TOGGLE_WRITE_FAIL, FORCE_WRITE_FAIL, written, logFile, nextId,
                   completed, doneBefore, failed, dropped, writesInCall, unserved>>

\* A successful write of the drain loop that sets the retry counter back to 0.
QueueWriteResetsCounter(t, os_err) ==
    /\ pc[t] = "queue_write"
    /\ try_write(msg[t], os_err)
    /\ writesInCall' = IF t \in Submitters
                       THEN [writesInCall EXCEPT ![t] = Min(@ + 1, WriteCap)]
                       ELSE writesInCall
    /\ session' = IF try_write_fails(os_err) THEN session
                   ELSE [session EXCEPT ![t].retries = 0]
    /\ IF ~try_write_fails(os_err)
       THEN /\ pc' = [pc EXCEPT ![t] = "print_until_empty"]
            /\ msg' = [msg EXCEPT ![t] = NoMsg]
            /\ UNCHANGED unserved
       ELSE /\ pc' = [pc EXCEPT ![t] =
                        IF config.on_queue_printing_fail = "TryUntilMaxRetries"
                        THEN "reinsert_retry" ELSE "reinsert_return"]
            /\ unserved' = {}
            /\ UNCHANGED msg
    /\ UNCHANGED <<cfgVars, backlog, sessionStart, queued, QUEUE, queueLock,
                   PRINTING_STATE, stateLock,
                   callId, config,
                   logFile, nextId, completed, doneBefore, dropped, panicked>>

\* async_impl.rs:132-137 and 146: write the message taken; on failure the policy
\* on_queue_printing_fail is read.
QueueWrite(t, os_err) ==
    /\ pc[t] = "queue_write"
    /\ try_write(msg[t], os_err)
    /\ writesInCall' = IF t \in Submitters
                       THEN [writesInCall EXCEPT ![t] = Min(@ + 1, WriteCap)]
                       ELSE writesInCall
    /\ IF ~try_write_fails(os_err)
       THEN /\ pc' = [pc EXCEPT ![t] = "print_until_empty"]
            /\ msg' = [msg EXCEPT ![t] = NoMsg]
            /\ UNCHANGED unserved
       ELSE /\ pc' = [pc EXCEPT ![t] =
                        IF config.on_queue_printing_fail = "TryUntilMaxRetries"
                        THEN "reinsert_retry" ELSE "reinsert_return"]
            /\ unserved' = {}
            /\ UNCHANGED msg
    /\ UNCHANGED <<cfgVars, backlog, sessionStart, queued, QUEUE, queueLock,
                   PRINTING_STATE, stateLock,
                   callId, session, config,
                   logFile, nextId, completed, doneBefore, dropped, panicked>>

\* The retry test reads max_retries from the configuration at each failure.
ReinsertRetryReadsAnew(t) ==
    /\ pc[t] = "reinsert_retry"
    /\ queueLock = None
    /\ QUEUE' = reinsert_message(QUEUE, msg[t])
    /\ dropped' = dropped \cup Discarded(insert0(QUEUE, msg[t]), QUEUE')
    /\ msg' = [msg EXCEPT ![t] = NoMsg]
    /\ IF session[t].retries < config.max_retries
       THEN /\ session' = [session EXCEPT ![t].retries = @ + 1]
            /\ pc' = [pc EXCEPT ![t] = "print_until_empty"]
       ELSE /\ pc' = [pc EXCEPT ![t] = "on_max_retries"]
            /\ UNCHANGED session
    /\ UNCHANGED <<cfgVars, backlog, sessionStart, queued, queueLock, PRINTING_STATE, stateLock,
                   callId, config,
                   TOGGLE_WRITE_FAIL, FORCE_WRITE_FAIL, written, logFile, nextId,
                   completed, doneBefore, failed, writesInCall, unserved, panicked>>

\* async_impl.rs:138-144: reinsert, then retry while retries < max_retries.
ReinsertRetry(t) ==
    /\ pc[t] = "reinsert_retry"
    /\ queueLock = None
    /\ QUEUE' = reinsert_message(QUEUE, msg[t])
    /\ dropped' = dropped \cup Discarded(insert0(QUEUE, msg[t]), QUEUE')
    /\ msg' = [msg EXCEPT ![t] = NoMsg]
    /\ IF session[t].retries < session[t].max_retries
       THEN /\ session' = [session EXCEPT ![t].retries = @ + 1]
            /\ pc' = [pc EXCEPT ![t] = "print_until_empty"]
       ELSE /\ pc' = [pc EXCEPT ![t] = "on_max_retries"]
            /\ UNCHANGED session
    /\ UNCHANGED <<cfgVars, backlog, sessionStart, queued, queueLock, PRINTING_STATE, stateLock,
                   callId, config,
                   TOGGLE_WRITE_FAIL, FORCE_WRITE_FAIL, written, logFile, nextId,
                   completed, doneBefore, failed, writesInCall, unserved, panicked>>

\* async_impl.rs:146-149: reinsert and stop.
ReinsertReturn(t) ==
    /\ pc[t] = "reinsert_return"
    /\ queueLock = None
    /\ QUEUE' = reinsert_message(QUEUE, msg[t])
    /\ dropped' = dropped \cup Discarded(insert0(QUEUE, msg[t]), QUEUE')
    /\ msg' = [msg EXCEPT ![t] = NoMsg]
    /\ pc' = [pc EXCEPT ![t] = AfterSession(t)]
    /\ UNCHANGED <<cfgVars, backlog, sessionStart, queued, queueLock, PRINTING_STATE,
                   stateLock, callId,
                   session, config,
                   TOGGLE_WRITE_FAIL, FORCE_WRITE_FAIL, written, logFile, nextId,
                   completed, doneBefore, failed, writesInCall, unserved, panicked>>

\* async_impl.rs:172-179: the policy on_max_retries_reached; WriteToDisk opens the
\* log file (log_io_path.rs:56-64), which fails for the path that was never set.
on_max_retries(t) ==
    /\ pc[t] = "on_max_retries"
    /\ pc' = [pc EXCEPT ![t] =
                IF config.on_max_retries_reached = "Return" THEN AfterSession(t)
                ELSE IF config.log_io_path = "unset" THEN AfterSession(t)
                ELSE "flush_lock"]
    /\ UNCHANGED <<cfgVars, backlog, sessionStart, queued, QUEUE, queueLock,
                   PRINTING_STATE, stateLock,
                   msg, callId, session,
                   config, TOGGLE_WRITE_FAIL, FORCE_WRITE_FAIL, written, logFile,
                   nextId, completed, doneBefore, failed, dropped, writesInCall,
                   unserved, panicked>>

\* async_impl.rs:181: the queue lock is taken and kept for the whole flush.
FlushLock(t) ==
    /\ pc[t] = "flush_lock"
    /\ queueLock = None
    /\ queueLock' = t
    /\ pc' = [pc EXCEPT ![t] = "flush_loop"]
    /\ UNCHANGED <<cfgVars, backlog, sessionStart, queued, QUEUE, PRINTING_STATE,
                   stateLock, msg, callId,
                   session, config,
                   TOGGLE_WRITE_FAIL, FORCE_WRITE_FAIL, written, logFile, nextId,
                   completed, doneBefore, failed, dropped, writesInCall, unserved,
                   panicked>>

\* async_impl.rs:183 and 199-201: the loop test; when empty, unlock and return.
FlushLoop(t) ==
    /\ pc[t] = "flush_loop"
    /\ IF is_empty(QUEUE)
       THEN /\ queueLock' = None
            /\ pc' = [pc EXCEPT ![t] = AfterSession(t)]
       ELSE /\ pc' = [pc EXCEPT ![t] = "flush_write"]
            /\ UNCHANGED queueLock
    /\ UNCHANGED <<cfgVars, backlog, sessionStart, queued, QUEUE, PRINTING_STATE,
                   stateLock, msg, callId,
                   session, config,
                   TOGGLE_WRITE_FAIL, FORCE_WRITE_FAIL, written, logFile, nextId,
                   completed, doneBefore, failed, dropped, writesInCall, unserved,
                   panicked>>

\* The head is removed from the queue without having been written to the file.
FlushRemovesUnwritten(t) ==
    /\ pc[t] = "flush_write"
    /\ Len(QUEUE) > 0
    /\ QUEUE' = remove0(QUEUE)
    /\ pc' = [pc EXCEPT ![t] = "flush_loop"]
    /\ UNCHANGED <<cfgVars, backlog, sessionStart, queueLock, PRINTING_STATE, stateLock,
                   msg, callId,
                   session, config,
                   TOGGLE_WRITE_FAIL, FORCE_WRITE_FAIL, written, logFile, nextId,
                   completed, doneBefore, failed, dropped, writesInCall, unserved,
                   queued, panicked>>

\* async_impl.rs:184-191: write queue[0] to the file; written: remove it.
FlushWriteOk(t) ==
    /\ pc[t] = "flush_write"
    /\ IF Len(QUEUE) = 0
       THEN /\ panicked' = TRUE
            /\ queueLock' = None
            /\ pc' = [pc EXCEPT ![t] = "panicked"]
            /\ UNCHANGED <<QUEUE, logFile>>
       ELSE /\ logFile' = emit(logFile, QUEUE[1])
            /\ QUEUE' = remove0(QUEUE)
            /\ pc' = [pc EXCEPT ![t] = "flush_loop"]
            /\ UNCHANGED <<queueLock, panicked>>
    /\ UNCHANGED <<cfgVars, backlog, sessionStart, queued, PRINTING_STATE, stateLock, msg,
                   callId,
                   session,
                   config,
                   TOGGLE_WRITE_FAIL, FORCE_WRITE_FAIL, written, nextId,
                   completed, doneBefore, failed, dropped, writesInCall, unserved>>

\* The message whose file write failed is removed as if it had been written.
FlushErrDropsFailing(t) ==
    /\ pc[t] = "flush_write"
    /\ config.log_io_path = "flaky"
    /\ Len(QUEUE) > 0
    /\ QUEUE' = owned_try_insert_write_err(remove0(QUEUE), ErrLogFile)
    /\ queueLock' = None
    /\ pc' = [pc EXCEPT ![t] = AfterSession(t)]
    /\ UNCHANGED <<cfgVars, backlog, sessionStart, queued, PRINTING_STATE, stateLock, msg,
                   callId,
                   session, config,
                   TOGGLE_WRITE_FAIL, FORCE_WRITE_FAIL, written, logFile, nextId,
                   completed, doneBefore, failed, dropped, writesInCall, unserved,
                   panicked>>

\* async_impl.rs:192-201: the file write failed; record it, leave the loop, unlock.
FlushWriteErr(t) ==
    /\ pc[t] = "flush_write"
    /\ config.log_io_path = "flaky"
    /\ Len(QUEUE) > 0
    /\ QUEUE' = owned_try_insert_write_err(QUEUE, ErrLogFile)
    /\ queueLock' = None
    /\ pc' = [pc EXCEPT ![t] = AfterSession(t)]
    /\ UNCHANGED <<cfgVars, backlog, sessionStart, queued, PRINTING_STATE, stateLock, msg,
                   callId,
                   session,
                   config,
                   TOGGLE_WRITE_FAIL, FORCE_WRITE_FAIL, written, logFile, nextId,
                   completed, doneBefore, failed, dropped, writesInCall, unserved,
                   panicked>>

\* The worker's closure has returned; from now on JoinHandle::is_finished is true.
WorkerExit(w) ==
    /\ w \in Workers
    /\ pc[w] = "returned"
    /\ pc' = [pc EXCEPT ![w] = "finished"]
    /\ session' = [session EXCEPT ![w] = NoSession]
    /\ sessionStart' = [sessionStart EXCEPT ![w] = NoStart]
    /\ UNCHANGED <<cfgVars, backlog>>
    /\ UNCHANGED <<queued, QUEUE, queueLock, PRINTING_STATE, stateLock, msg, callId, config,
                   TOGGLE_WRITE_FAIL, FORCE_WRITE_FAIL, written, logFile, nextId,
                   completed, doneBefore, failed, dropped, writesInCall, unserved,
                   panicked>>

\* ---------------------------------------------------------------- the streams
\* test_utils.rs:21-23
write_fail_once ==
    /\ FORCE_WRITE_FAIL = FALSE
    /\ FORCE_WRITE_FAIL' = TRUE
    /\ UNCHANGED <<cfgVars, backlog, sessionStart, queued, QUEUE, queueLock, PRINTING_STATE,
                   stateLock, pc,
                   msg, callId, session,
                   config, TOGGLE_WRITE_FAIL, written, logFile, nextId, completed,
                   doneBefore, failed, dropped, writesInCall, unserved, panicked>>

\* test_utils.rs:25-27
set_toggle_write_fail(value) ==
    /\ TOGGLE_WRITE_FAIL # value
    /\ TOGGLE_WRITE_FAIL' = value
    /\ UNCHANGED <<cfgVars, backlog, sessionStart, queued, QUEUE, queueLock, PRINTING_STATE,
                   stateLock, pc,
                   msg, callId, session,
                   config, FORCE_WRITE_FAIL, written, logFile, nextId, completed,
                   doneBefore, failed, dropped, writesInCall, unserved, panicked>>

\* ---------------------------------------------------------------- specification
\* What the operating system may answer to a write to stdout or stderr.
OsErrors == IF failed < MaxFails THEN BOOLEAN ELSE {FALSE}

ThreadStep(t) ==
    \/ \E os_err \in OsErrors : FastWrite(t, os_err)
    \/ InsertFailed(t)
    \/ TryLockState(t)
    \/ FoundBusy(t)
    \/ SpawnOk(t)
    \/ SetThreaded(t)
    \/ SpawnErr(t)
    \/ LogSpawnErr(t)
    \/ SyncReset(t)
    \/ start_printing_queue(t)
    \/ print_until_empty(t)
    \/ \E os_err \in OsErrors : QueueWrite(t, os_err)
    \/ ReinsertRetry(t)
    \/ ReinsertReturn(t)
    \/ on_max_retries(t)
    \/ FlushLock(t)
    \/ FlushLoop(t)
    \/ FlushWriteOk(t)
    \/ FlushWriteErr(t)
    \/ WorkerExit(t)

Next ==
    \/ \E t \in Submitters : Submit(t)
    \/ \E t \in Threads : ThreadStep(t)

Spec == Init /\ [][Next]_vars

\* ---------------------------------------------------------------- one transient failure
\* The run of the tests at max_retries.rs:58-68: one thread prints, thread
\* creation succeeds, write_fail_once() makes a single write fail, the
\* operating system refuses nothing, and nothing is submitted after the failed
\* write.  max_queue_length >= 1, TryUntilMaxRetries, max_retries >= 1.
LiveConfigs ==
    {c \in Configs : /\ c.max_queue_length >= 1
                     /\ c.on_queue_printing_fail = "TryUntilMaxRetries"
                     /\ c.max_retries >= 1}

InitLive == Init /\ config \in LiveConfigs

SubmitBeforeFailure == failed = 0 /\ Submit(1)

FailOneWrite == failed = 0 /\ write_fail_once

CallStep(t) ==
    \/ FastWrite(t, FALSE)
    \/ InsertFailed(t)
    \/ TryLockState(t)
    \/ SpawnOk(t)
    \/ SetThreaded(t)

WorkerStep(w) ==
    \/ start_printing_queue(w)
    \/ print_until_empty(w)
    \/ QueueWrite(w, FALSE)
    \/ WorkerExit(w)

NextLive ==
    \/ SubmitBeforeFailure
    \/ FailOneWrite
    \/ CallStep(1)
    \/ \E w \in Workers : WorkerStep(w)

\* A thread that can take a step is scheduled eventually; nothing obliges the
\* program to print again or the test to inject the failure.
SpecLive ==
    /\ InitLive
    /\ [][NextLive]_vars
    /\ WF_vars(CallStep(1))
    /\ \A w \in Workers : WF_vars(WorkerStep(w))

\* ---------------------------------------------------------------- the crate's tests
\* The tests of src/src/config (max_queue_length.rs:22-115 and the like): one
\* thread prints and, between two prints, switches the write failures of
\* test_utils on and off; the workers it causes run beside it.
Tester == 1
TestThreads == {Tester} \cup Workers

ToggleWriteFail ==
    /\ pc[Tester] = "idle"
    /\ \E value \in BOOLEAN : set_toggle_write_fail(value)

ForceWriteFail == pc[Tester] = "idle" /\ write_fail_once

NextTest ==
    \/ ToggleWriteFail
    \/ ForceWriteFail
    \/ Submit(Tester)
    \/ \E t \in TestThreads : ThreadStep(t)

SpecTest == Init /\ [][NextTest]_vars

\* No call of comfy_print_async is running and no worker thread is alive.
Quiescent ==
    /\ \A t \in Submitters : pc[t] = "idle"
    /\ \A w \in Workers : pc[w] \in {"unborn", "finished", "panicked"}

\* ---------------------------------------------------------------- a backlog, then success
\* The run of async_impl.rs:304-327: set_toggle_write_fail(true) before the first
\* print, prints whose sessions fail, yield_until_idle, set_toggle_write_fail(false),
\* one more print, yield_until_idle.
FailAllWrites ==
    /\ nextId = 1
    /\ \A t \in Submitters : pc[t] = "idle"
    /\ backlog = NoBacklog
    /\ set_toggle_write_fail(TRUE)

SubmitFailing == TOGGLE_WRITE_FAIL /\ \E t \in Submitters : Submit(t)

\* test_utils.rs:25-33, the state yield_until_idle waits for: no drainer is active.
NoDrainer == Quiescent /\ ~is_busy(PRINTING_STATE)

WritesSucceedAgain ==
    /\ TOGGLE_WRITE_FAIL
    /\ NoDrainer
    /\ QUEUE # <<>>
    /\ backlog = NoBacklog
    /\ set_toggle_write_fail(FALSE)

\* The one further submission; what it found is kept in backlog.
SubmitToBacklog ==
    /\ ~TOGGLE_WRITE_FAIL
    /\ failed >= 1
    /\ NoDrainer
    /\ QUEUE # <<>>
    /\ backlog = NoBacklog
    /\ comfy_print_async(Tester)
    /\ backlog' = [queue |-> QUEUE, failed |-> failed]

NextBacklog ==
    \/ FailAllWrites
    \/ SubmitFailing
    \/ WritesSucceedAgain
    \/ SubmitToBacklog
    \/ \E t \in Threads : ThreadStep(t)

SpecBacklog == Init /\ [][NextBacklog]_vars

\* ---------------------------------------------------------------- diagnostics under failure
\* The run of max_queue_length.rs:66-83: diagnostics allowed, KeepNewest,
\* max_retries at least max_queue_length, set_toggle_write_fail(true), then
\* prints by one thread.
DiagConfigs ==
    {c \in [max_queue_length : 2..MaxDiagQ,
            max_retries : 2..MaxDiagQ,
            on_queue_full : {"KeepNewest"},
            on_queue_printing_fail : {"TryUntilMaxRetries", "Return"},
            on_max_retries_reached : {"Return", "WriteToDisk"},
            allow_logging_print_failures : {TRUE},
            log_io_path : {"unset", "good", "flaky"}] :
        /\ c.max_retries = c.max_queue_length
        /\ c.on_queue_printing_fail = "Return" => c.on_max_retries_reached = "Return"
        /\ c.on_max_retries_reached = "Return" => c.log_io_path = "unset"}

InitDiagnostics == InitWith(DiagConfigs)

TesterFailsAllWrites ==
    /\ nextId = 1
    /\ pc[Tester] = "idle"
    /\ set_toggle_write_fail(TRUE)

TesterSubmitsFailing == TOGGLE_WRITE_FAIL /\ Submit(Tester)

NextDiagnostics ==
    \/ TesterFailsAllWrites
    \/ TesterSubmitsFailing
    \/ \E t \in TestThreads : ThreadStep(t)

SpecDiagnostics == InitDiagnostics /\ [][NextDiagnostics]_vars

\* ---------------------------------------------------------------- configuring
\* Everything but the tunables.
printVars == <<QUEUE, queueLock, PRINTING_STATE, stateLock, pc, msg, callId, session,
               TOGGLE_WRITE_FAIL, FORCE_WRITE_FAIL, written, logFile, nextId,
               completed, doneBefore, failed, dropped, writesInCall, unserved, queued,
               sessionStart, backlog, panicked>>

\* The texts tried for the environment variable of a tunable.
EnvTexts(name) ==
    CASE name \in {"max_retries", "max_queue_length"} -> {"0", "2", "+1", "-1"}
      [] name = "allow_logging_print_failures" -> {"true", "false", "1"}
      [] name = "on_queue_printing_fail" -> {"1", "TryUntilMaxRetries", "31413413"}
      [] name = "on_max_retries_reached" -> {"0", "WriteToDisk", "123154464"}
      [] name = "log_io_path" -> {"test.txt", "logs/full.txt", "/"}
      [] name = "on_queue_full" -> {"KeepOldest", "KeepNewest", "Oldest"}

\* std::env::set_var(ENV_NAME, value), as the tests call it before load_all.
set_var(name, value) ==
    /\ env[name].set \/ Cardinality({n \in Tunables : env[n].set}) < MaxEnvVars
    /\ env' = [env EXCEPT ![name] = [set |-> TRUE, value |-> value]]
    /\ call' = NoCall
    /\ UNCHANGED <<CURRENT, config, printVars>>

\* A call of the configuration API leaves store behind and returns as c says.
Configure(store, c) ==
    /\ CURRENT' = store
    /\ config' = Gets(store)
    /\ call' = c
    /\ UNCHANGED <<env, printVars>>

SetCall(name, new_value) == [op |-> "set", name |-> name, arg |-> new_value]

\* max_retries.rs:20
max_retries_set(new_value) ==
    Configure([CURRENT EXCEPT !.max_retries = new_value],
              SetCall("max_retries", new_value))

\* max_queue_length.rs:20
max_queue_length_set(new_value) ==
    Configure([CURRENT EXCEPT !.max_queue_length = new_value],
              SetCall("max_queue_length", new_value))

\* on_queue_printing_fail.rs:49-51
on_queue_printing_fail_set(new_value) ==
    Configure([CURRENT EXCEPT !.on_queue_printing_fail =
                                  On_QueuePrintingFail_as_u8(new_value)],
              SetCall("on_queue_printing_fail", new_value))

\* on_max_retries_reached.rs:48-50
on_max_retries_reached_set(new_value) ==
    Configure([CURRENT EXCEPT !.on_max_retries_reached =
                                  On_MaxRetriesReached_as_u8(new_value)],
              SetCall("on_max_retries_reached", new_value))

\* config/allow_logging_print_failures.rs
allow_logging_print_failures_set(new_value) ==
    Configure([CURRENT EXCEPT !.allow_logging_print_failures = new_value],
              SetCall("allow_logging_print_failures", new_value))

\* config/on_queue_full.rs
on_queue_full_set(new_value) ==
    Configure([CURRENT EXCEPT !.on_queue_full = new_value],
              SetCall("on_queue_full", new_value))

\* A call of log_io_path::set; dir is what the file system answers.
SetLogPath(new_value, dir) ==
    LET r == log_io_path_set(CURRENT, new_value, dir)
    IN  Configure(r.store, [op |-> "set", name |-> "log_io_path", arg |-> new_value,
                            dir |-> dir, ret |-> r.ret])

\* A call of env_vars::load_all.
LoadAll(dir) ==
    LET r == load_all(CURRENT, env, dir)
    IN  Configure(r.store, [op |-> "load_all", dir |-> dir, result |-> r.result])

NextConfig ==
    \/ \E name \in Tunables : \E value \in EnvTexts(name) : set_var(name, value)
    \/ \E new_value \in 0..MaxR : max_retries_set(new_value)
    \/ \E new_value \in 0..MaxQ : max_queue_length_set(new_value)
    \/ \E new_value \in {"TryUntilMaxRetries", "Return"} :
           on_queue_printing_fail_set(new_value)
    \/ \E new_value \in {"Return", "WriteToDisk"} : on_max_retries_reached_set(new_value)
    \/ \E new_value \in BOOLEAN : allow_logging_print_failures_set(new_value)
    \/ \E new_value \in {"KeepNewest", "KeepOldest"} : on_queue_full_set(new_value)
    \/ \E new_value \in EnvTexts("log_io_path") \cup {""} :
           \E dir \in DirOutcomes : SetLogPath(new_value, dir)
    \/ \E dir \in DirOutcomes : LoadAll(dir)

SpecConfig == Init /\ [][NextConfig]_vars

\* ---------------------------------------------------------------- configuring while printing
\* The tunables are statics any thread may set at any time (max_retries.rs:20 and
\* the like); here one thread prints, the workers it causes run beside it, and
\* one call of a setter is made at any moment of the run.
Reconfigure ==
    /\ call = NoCall
    /\ \/ \E new_value \in 0..MaxR : max_retries_set(new_value)
       \/ \E new_value \in 0..MaxQ : max_queue_length_set(new_value)
       \/ \E new_value \in {"TryUntilMaxRetries", "Return"} :
              on_queue_printing_fail_set(new_value)
       \/ \E new_value \in {"Return", "WriteToDisk"} :
              on_max_retries_reached_set(new_value)
       \/ \E new_value \in BOOLEAN : allow_logging_print_failures_set(new_value)
       \/ \E new_value \in {"KeepNewest", "KeepOldest"} : on_queue_full_set(new_value)

NextReconfigure ==
    \/ Reconfigure
    \/ Submit(Tester)
    \/ \E t \in TestThreads : ThreadStep(t)

SpecReconfigure == Init /\ [][NextReconfigure]_vars

\* ---------------------------------------------------------------- the four kinds of message
\* message.rs:34-64, the constructors the macros of macros.rs use.
Constructors == {"standard", "standard_ln", "error", "error_ln"}

Construct(name, print_me) ==
    CASE name = "standard" -> standard(print_me)
      [] name = "standard_ln" -> standard_ln(print_me)
      [] name = "error" -> error(print_me)
      [] name = "error_ln" -> error_ln(print_me)

\* One thread prints a message made by any of the constructors; call keeps
\* which one.
PrintWith(name) ==
    /\ print_message(Tester, Construct(name, nextId))
    /\ call' = [op |-> name, arg |-> nextId]
    /\ UNCHANGED backlog

NextMessages ==
    \/ \E name \in Constructors : PrintWith(name)
    \/ \E t \in TestThreads : ThreadStep(t)

SpecMessages == Init /\ [][NextMessages]_vars

\* ---------------------------------------------------------------- notions of the claims
WrittenIds == {written[i].string : i \in {j \in 1..Len(written) : written[j].string >= 1}}

\* Messages taken out of the queue, or not yet put into it, by a running thread.
InFlightIds == {msg[t].string : t \in {u \in Threads : IsUser(msg[u])}}

\* The submissions so far were made one after another.
Sequential == \A b \in 1..(nextId - 1) : doneBefore[b] = 1..(b - 1)

\* C1: at most one thread is inside the drain loop print_until_empty, whether it
\* is a spawned worker or a submitter in the synchronous fallback.
AtMostOneDrainer == Cardinality({t \in Threads : InDrainLoop(t)}) <= 1

\* C1 witness: a submitter runs the synchronous fallback while a worker that
\* finished earlier exists.
AtMostOneDrainerWitness ==
    \E t \in Submitters, w \in Workers : InDrainLoop(t) /\ pc[w] = "finished"

\* C2: whenever the queue lock is free the queue holds at most max_queue_length
\* messages.
BoundedQueue == queueLock = None => Len(QUEUE) <= config.max_queue_length

\* C3: if A's submission returned before B's began and both were written to the
\* same stream, A was written before B.
PerStreamOrder ==
    \A i, j \in 1..Len(written) :
        (i < j /\ written[i].string >= 1 /\ written[j].string >= 1
               /\ written[i].output = written[j].output)
            => written[j].string \notin doneBefore[written[i].string]

\* C4: after submissions made one after another with no failed write, what was
\* written is the submitted messages in submission order, each once.
FifoWithoutFailures ==
    (failed = 0 /\ Sequential) =>
        /\ Len(written) <= nextId - 1
        /\ \A i \in 1..Len(written) : written[i] = Display(standard_ln(i))
        /\ completed \subseteq 1..Len(written)

\* C4 witness: MaxMsgs submissions were made one after another, none failed, all returned.
FifoWithoutFailuresWitness ==
    failed = 0 /\ Sequential /\ completed = 1..MaxMsgs /\ Len(written) = MaxMsgs

\* C5: after a single failed write, with no later failure and no further
\* submission, the drainer becomes idle with the queue empty and every
\* submitted message written.
Delivered ==
    /\ Quiescent
    /\ ~is_busy(PRINTING_STATE)
    /\ QUEUE = <<>>
    /\ \A id \in 1..(nextId - 1) : id \in WrittenIds

NoLostWakeup == Quiescent => unserved \cap UserIds(QUEUE) = {}

\* C7 (as stated): when a call returns, its message has been written or is held
\* for later delivery (in the queue or with a thread that took it out).
HeldOrWritten(id, q, held, out) ==
    \/ id \in UserIds(q)
    \/ \E t \in Threads : held[t].string = id
    \/ \E i \in 1..Len(out) : out[i].string = id

DeliverOrQueue ==
    [][\A t \in Submitters :
          (callId[t] # None /\ callId'[t] = None)
              => HeldOrWritten(callId[t], QUEUE', msg', written')]_vars

\* C7 (amended): when a call returns, its message has been written to its
\* stream, is held for later delivery, was appended to the log file by the
\* exhaustion handler, or was discarded by a capacity decision.
DeliverQueueOrDiscard ==
    [][\A t \in Submitters :
          (callId[t] # None /\ callId'[t] = None)
              => \/ HeldOrWritten(callId[t], QUEUE', msg', written')
                 \/ \E i \in 1..Len(logFile') : logFile'[i].string = callId[t]
                 \/ callId[t] \in dropped']_vars

\* C7 witness: a call has returned and its message waits in the queue.
DeliverQueueOrDiscardWitness == \E id \in completed : id \in UserIds(QUEUE)

\* C8 (as stated): a call makes at most one write to a stream on its own thread.
OneWritePerCall == \A t \in Submitters : writesInCall[t] <= 1

\* C8 (amended): a call makes more than one write on its own thread only when
\* thread creation failed and it runs the drain session itself.
SyncPcs == DrainPcs \cup {"sync_reset"}

OneWriteUnlessSynchronous ==
    \A t \in Submitters : writesInCall[t] > 1 => pc[t] \in SyncPcs

\* C8 witness: a call whose fast-path write failed has created a worker thread.
OneWriteUnlessSynchronousWitness ==
    \E t \in Submitters : pc[t] = "spawned" /\ writesInCall[t] = 1

\* C9: no remove(0) and no [0] runs on an empty queue; no thread panics.
NeverPanics == ~panicked /\ \A t \in Threads : pc[t] # "panicked"

\* C9 witness: stream writes failed, thread creation failed and the log file
\* was written during the synchronous drain.
NeverPanicsWitness ==
    /\ PRINTING_STATE = Synchronous
    /\ logFile # <<>>
    /\ failed > 0

\* C10: no thread holds the queue lock while it writes to a stream or to the
\* log file.
WritePcs == {"try_write", "queue_write", "flush_write"}

NoWriteUnderQueueLock == \A t \in Threads : pc[t] \in WritePcs => queueLock # t

\* ---------------------------------------------------------------- the overflow policy
\* The step in which thread t calls comfy_print_async and finds the queue non-empty.
SubmitsToQueue(t) == callId[t] = None /\ callId'[t] # None /\ QUEUE # <<>>

\* C11: a submission that finds a non-empty queue of length L appends its
\* message when L < max_queue_length; at capacity KeepNewest removes the head
\* and appends (length unchanged), KeepOldest leaves the queue as it was.
OverflowPolicyOnSubmit ==
    [][\A t \in Submitters :
          SubmitsToQueue(t) =>
              LET m == standard_ln(callId'[t])
                  L == Len(QUEUE)
              IN IF L < config.max_queue_length
                 THEN QUEUE' = Append(QUEUE, m)
                 ELSE IF config.on_queue_full = "KeepNewest"
                 THEN /\ QUEUE' = Append(Tail(QUEUE), m)
                      /\ Len(QUEUE') = L
                 ELSE QUEUE' = QUEUE]_vars

\* C11 witness: with max_queue_length = 1 and KeepNewest, submission 2 found
\* submission 1 in the queue, evicted it and took its place.
OverflowPolicyOnSubmitWitness ==
    /\ config.on_queue_full = "KeepNewest"
    /\ config.max_queue_length = 1
    /\ ~config.allow_logging_print_failures
    /\ QUEUE = <<standard_ln(2)>>
    /\ 1 \in dropped
    /\ \E t \in Submitters : pc[t] = "check_state" /\ callId[t] = 2 /\ writesInCall[t] = 0

\* ---------------------------------------------------------------- KeepNewest
QueuedIds == UserIds(QUEUE)

\* Every write so far has failed and the failure switch is still on; the
\* tunables are those of max_queue_length.rs:92-113.
KeepNewestScenario ==
    /\ config.on_queue_full = "KeepNewest"
    /\ ~config.allow_logging_print_failures
    /\ config.max_queue_length >= 1
    /\ config.on_max_retries_reached = "Return"
    /\ TOGGLE_WRITE_FAIL
    /\ written = <<>>

\* C12: after N > max_queue_length = M failing submissions by one thread, once
\* no call runs and no worker is alive the queue holds exactly M messages, the
\* M submitted last.
KeepNewestKeepsMostRecent ==
    (KeepNewestScenario /\ Quiescent /\ nextId - 1 > config.max_queue_length) =>
        /\ Len(QUEUE) = config.max_queue_length
        /\ QueuedIds = (nextId - config.max_queue_length)..(nextId - 1)

\* ---------------------------------------------------------------- capacity one
\* max_queue_length.rs:47-64: capacity 1, no diagnostics, one write made to fail.
CapacityOneScenario ==
    /\ config.max_queue_length = 1
    /\ ~config.allow_logging_print_failures
    /\ failed <= 1

\* The call of the test thread has put its failed message into the queue.
FailureRecorded == pc[Tester] = "check_state" /\ writesInCall[Tester] = 1

LoggedIds == {logFile[i].string : i \in {j \in 1..Len(logFile) : logFile[j].string >= 1}}

\* on_max_retries_reached.rs:110-143: no retry, WriteToDisk, a log file that
\* opens and takes every write, and no write to a stream has succeeded.
ExhaustionScenario ==
    /\ config.max_retries = 0
    /\ config.on_queue_printing_fail = "TryUntilMaxRetries"
    /\ config.on_max_retries_reached = "WriteToDisk"
    /\ config.log_io_path = "good"
    /\ TOGGLE_WRITE_FAIL
    /\ written = <<>>

\* The step in which the drain session of thread t ends.
SessionEnds(t) == pc[t] \in DrainPcs /\ pc'[t] = AfterSession(t)

\* C14 (as stated): when a drain session ends the queue is empty and every
\* message that was queued is in the log file.
ExhaustionDrainsToDisk ==
    [][\A t \in Threads :
          (ExhaustionScenario /\ SessionEnds(t))
              => QUEUE' = <<>> /\ queued \subseteq LoggedIds']_vars

\* C14 (amended): when a drain session ends the queue is empty and every
\* message that was queued is in the log file, unless the overflow policy
\* discarded it.
ExhaustionDrainsOrDiscards ==
    [][\A t \in Threads :
          (ExhaustionScenario /\ SessionEnds(t))
              => QUEUE' = <<>> /\ queued \subseteq (LoggedIds' \cup dropped')]_vars

\* C14 witness: a worker has flushed two queued messages to the log file and
\* its session has ended.
ExhaustionDrainsOrDiscardsWitness ==
    /\ ExhaustionScenario
    /\ LoggedIds = {1, 2}
    /\ QUEUE = <<>>
    /\ \E w \in Workers : pc[w] = "returned"

\* ---------------------------------------------------------------- the fast path
\* What a call on the fast path must leave alone: the queue, the printing
\* state and its lock, and the worker threads.
LeavesSystemAlone ==
    /\ QUEUE' = QUEUE
    /\ PRINTING_STATE' = PRINTING_STATE
    /\ stateLock' = stateLock
    /\ \A w \in Workers : pc'[w] = pc[w]

\* Thread t calls comfy_print_async and finds the queue empty.
CallsWithEmptyQueue(t) == callId[t] = None /\ callId'[t] # None /\ QUEUE = <<>>

\* The fast-path write of thread t succeeds.
FastWriteSucceeds(t) == pc[t] = "try_write" /\ pc'[t] # "try_write" /\ written' # written

\* C15: a call that finds the queue empty and whose write succeeds writes its
\* message on the calling thread and returns; it leaves the queue, the
\* printing state and the workers as they were, and with no failed write so
\* far the queue is empty and the state Idle afterwards.
FastPathLeavesSystemUntouched ==
    [][\A t \in Submitters :
          /\ CallsWithEmptyQueue(t) => (pc'[t] = "try_write" /\ LeavesSystemAlone)
          /\ FastWriteSucceeds(t) =>
                /\ written' = Append(written, Display(msg[t]))
                /\ pc'[t] = "idle"
                /\ callId[t] \in completed'
                /\ LeavesSystemAlone
                /\ failed = 0 => (QUEUE' = <<>> /\ PRINTING_STATE' = Idle)]_vars

\* C15 witness: two calls took the fast path and returned; nothing was queued
\* and no worker was created.
FastPathLeavesSystemUntouchedWitness ==
    /\ failed = 0
    /\ completed = {1, 2}
    /\ Len(written) = 2
    /\ QUEUE = <<>>
    /\ PRINTING_STATE = Idle
    /\ \A w \in Workers : pc[w] = "unborn"

\* ---------------------------------------------------------------- zero capacity
\* The fast-path write of thread t fails.
FastWriteFails(t) == pc[t] = "try_write" /\ pc'[t] # "try_write" /\ written' = written

\* C16: with max_queue_length = 0 a failed fast-path write drops the message:
\* the call returns, the queue stays empty (no message, no diagnostic), no
\* drainer is started and the printing state is unchanged.
ZeroCapacityDrops ==
    [][\A t \in Submitters :
          (config.max_queue_length = 0 /\ FastWriteFails(t)) =>
              /\ pc'[t] = "idle"
              /\ msg[t].string \in dropped'
              /\ msg'[t] = NoMsg
              /\ QUEUE = <<>> /\ QUEUE' = <<>>
              /\ LeavesSystemAlone
              /\ logFile' = logFile]_vars

\* C16 witness: with capacity 0 and diagnostics allowed a write failed and its
\* call has returned; the message was dropped.
ZeroCapacityDropsWitness ==
    /\ config.max_queue_length = 0
    /\ config.allow_logging_print_failures
    /\ failed >= 1
    /\ 1 \in dropped
    /\ 1 \in completed
    /\ QUEUE = <<>>

\* ---------------------------------------------------------------- policy Return
\* The write thread t made of a message taken from the queue fails.
QueueWriteFails(t) == pc[t] = "queue_write" /\ pc'[t] # "queue_write" /\ written' = written

\* Thread t puts its failed message back and ends its session.
ReturnsAfterFailure(t) == pc[t] = "reinsert_return" /\ pc'[t] # "reinsert_return"

\* C17: under on_queue_printing_fail = Return a session ends at its first
\* failed write: the message goes back to the head, the exhaustion handler
\* never runs, without diagnostics and under capacity the queue is the failed
\* message followed by what the queue held; the queue is then non-empty with
\* no drainer, and only a drainer empties a queue.
ReturnStopsDrain ==
    [][config.on_queue_printing_fail = "Return" =>
          /\ \A t \in Threads :
                /\ QueueWriteFails(t) => pc'[t] = "reinsert_return"
                /\ pc'[t] \notin {"on_max_retries", "flush_lock", "flush_loop", "flush_write"}
                /\ ReturnsAfterFailure(t) =>
                      /\ pc'[t] = AfterSession(t)
                      /\ (~config.allow_logging_print_failures
                            /\ Len(QUEUE) < config.max_queue_length)
                          => QUEUE' = <<msg[t]>> \o QUEUE
                      /\ QUEUE' # <<>>
                      /\ \A u \in Threads : ~InDrainLoop(u)'
          /\ (QUEUE # <<>> /\ QUEUE' = <<>>)
                => \E t \in Threads : InDrainLoop(t) /\ pc'[t] # pc[t]]_vars

\* C17 witness: under Return a worker's write of message 1 failed while message
\* 2 waited; the worker put message 1 back in front and is gone.
ReturnStopsDrainWitness ==
    /\ config.on_queue_printing_fail = "Return"
    /\ ~config.allow_logging_print_failures
    /\ QUEUE = <<standard_ln(1), standard_ln(2)>>
    /\ written = <<>>
    /\ Quiescent
    /\ PRINTING_STATE.kind = "Threaded"

\* ---------------------------------------------------------------- the retry counter
\* Thread t has put its failed message back under TryUntilMaxRetries and
\* decides between another attempt and the exhaustion handler.
DecidesRetry(t) == pc[t] = "reinsert_retry" /\ pc'[t] # "reinsert_retry"

\* Failed writes of the session of thread t, the one just made included: every
\* earlier one incremented retries (async_impl.rs:141).
FailedAttempts(t) == session[t].retries + 1

\* C18: after a failed write the session goes on only if the incremented
\* counter is below max_retries, and the exhaustion handler runs on the
\* failure that brings the counter to max_retries: a session makes at most
\* max_retries failed attempts when max_retries >= 1.
RetryThreshold ==
    [][\A t \in Threads :
          DecidesRetry(t) =>
              /\ pc'[t] = "print_until_empty" =>
                    /\ session'[t].retries = session[t].retries + 1
                    /\ session'[t].retries < session[t].max_retries
              /\ (pc'[t] = "on_max_retries" /\ session[t].max_retries >= 1) =>
                    FailedAttempts(t) = session[t].max_retries]_vars

\* C19: a successful write inside a drain session sets the retry counter of
\* the session back to zero.
QueueWriteSucceeds(t) == pc[t] = "queue_write" /\ pc'[t] # "queue_write" /\ written' # written

RetryCounterResetOnSuccess ==
    [][\A t \in Threads : QueueWriteSucceeds(t) => session'[t].retries = 0]_vars

\* C20: a submission that puts a message into the queue makes the attempts
\* counter start from zero again, also that of a session already running.
PutsIntoQueue == queued' # queued

PrintResetsAttempts ==
    [][PutsIntoQueue => \A u \in Threads : InDrainLoop(u)' => session'[u].retries = 0]_vars

\* ---------------------------------------------------------------- exhaustion, policy Return
\* max_retries.rs:40-50: TryUntilMaxRetries, exhaustion policy Return, no
\* diagnostics, and no write to a stream has succeeded.
ReturnExhaustionScenario ==
    /\ config.on_queue_printing_fail = "TryUntilMaxRetries"
    /\ config.on_max_retries_reached = "Return"
    /\ ~config.allow_logging_print_failures
    /\ TOGGLE_WRITE_FAIL
    /\ written = <<>>

\* The session of thread t has reached max_retries and leaves the handler.
LeavesHandler(t) == pc[t] = "on_max_retries" /\ pc'[t] # "on_max_retries"

\* Nothing was put into the queue by a submission since the session of t began.
NoSubmissionSince(t) == sessionStart[t].queued = queued

\* C21: a session that reaches max_retries under policy Return ends and leaves
\* the queue holding the messages it held when the session began, in the same
\* order; nothing is written to the log file.
ExhaustionReturnKeepsQueue ==
    [][\A t \in Threads :
          (ReturnExhaustionScenario /\ LeavesHandler(t) /\ NoSubmissionSince(t)) =>
              /\ pc'[t] = AfterSession(t)
              /\ QUEUE' = sessionStart[t].queue
              /\ QUEUE' # <<>>
              /\ logFile' = logFile]_vars

\* ---------------------------------------------------------------- draining a backlog
\* What a stream shows for the messages of q, in order.
Shown(q) == [i \in 1..Len(q) |-> Display(q[i])]

\* q without its k-th message; k = 0 removes nothing.
Without(q, k) == [i \in 1..(Len(q) - (IF k = 0 THEN 0 ELSE 1)) |->
                    IF k = 0 \/ i < k THEN q[i] ELSE q[i + 1]]

\* The submission after the backlog has been made, every call has returned, no
\* drainer is active, and no write has failed since that submission.
BacklogServed ==
    /\ backlog # NoBacklog
    /\ NoDrainer
    /\ failed = backlog.failed

\* The backlog followed by the message of the further submission.
BacklogAndNew == push(backlog.queue, standard_ln(nextId - 1))

\* What the streams received, the report of a failed thread creation left out.
WrittenMessages == SelectSeq(written, LAMBDA d : d.string # ErrSpawn)

\* The place in BacklogAndNew of the message the overflow policy discards at the
\* further submission: none while the backlog is below max_queue_length, else the
\* head (KeepNewest) or the new message (KeepOldest).
DiscardedAtSubmission ==
    IF Len(backlog.queue) < config.max_queue_length THEN 0
    ELSE IF config.on_queue_full = "KeepNewest" THEN 1
    ELSE Len(backlog.queue) + 1

\* C22 as stated: once the drainer started by the further submission is idle, the
\* queue is empty and the streams hold the whole backlog in queue order, then
\* the new message.
BacklogDrained ==
    BacklogServed =>
        /\ QUEUE = <<>>
        /\ WrittenMessages = Shown(BacklogAndNew)

\* C22, amended: the same, except for the one message the overflow policy
\* discards at the further submission when the backlog already fills the queue.
BacklogDrainedButDiscarded ==
    BacklogServed =>
        /\ QUEUE = <<>>
        /\ WrittenMessages = Shown(Without(BacklogAndNew, DiscardedAtSubmission))

BacklogDrainedButDiscardedWitness ==
    /\ BacklogServed
    /\ DiscardedAtSubmission = 0
    /\ Len(written) = 2

\* ---------------------------------------------------------------- synchronous fallback
\* async_impl.rs:99-110: where a caller is from the failed thread creation until
\* it has set the state back to Idle.
FallbackPcs == {"spawn_failed", "start_printing_queue"} \cup SyncPcs
InFallback(t) == t \in Submitters /\ pc[t] \in FallbackPcs

\* Thread u, holding the state lock, decides in check_state (async_impl.rs:87-92).
Arbitrates(u) == pc[u] = "state_locked" /\ pc'[u] # "state_locked"

\* C23: a failed thread creation sets the state to Synchronous; the caller then
\* runs a drain session to its end and sets the state to Idle; in between the
\* state stays Synchronous, every other submitter that arbitrates returns
\* without starting a drainer, and no worker thread runs.
SynchronousFallback ==
    [][\A t \in Submitters :
          /\ (Arbitrates(t) /\ pc'[t] = "spawn_failed") =>
                 ~is_busy(PRINTING_STATE) /\ PRINTING_STATE' = Synchronous
          /\ (InFallback(t) /\ pc'[t] = "sync_reset" /\ pc[t] # "sync_reset") =>
                 pc[t] \in DrainPcs
          /\ InFallback(t) =>
                 /\ PRINTING_STATE = Synchronous
                 /\ pc'[t] \notin FallbackPcs =>
                        pc[t] = "sync_reset" /\ pc'[t] = "idle" /\ PRINTING_STATE' = Idle
                 /\ \A u \in Submitters \ {t} :
                        Arbitrates(u) => pc'[u] = "idle" /\ PRINTING_STATE' = Synchronous
                 /\ \A w \in Workers : pc'[w] = pc[w]]_vars

\* A caller has drained synchronously, writing a message, while another call
\* came and returned.
SynchronousFallbackWitness ==
    \E t \in Submitters :
        /\ pc[t] = "sync_reset"
        /\ PRINTING_STATE = Synchronous
        /\ written # <<>>
        /\ completed # {}
        /\ callId[t] = 1

\* ---------------------------------------------------------------- diagnostics and capacity
IsDiagnostic(m) == m # NoMsg /\ ~IsUser(m)

\* Diagnostics in the queue or taken out of it by a drainer.
Diagnostics == Cardinality({i \in 1..Len(QUEUE) : IsDiagnostic(QUEUE[i])}) +
               Cardinality({t \in Threads : IsDiagnostic(msg[t])})

\* A step that creates a diagnostic message and inserts it.
DiagnosticInserted == Diagnostics' > Diagnostics

\* max_queue_length.rs:66-75 as the claim words it.
DiagnosticsScenario ==
    /\ config.allow_logging_print_failures
    /\ config.on_queue_full = "KeepNewest"
    /\ config.max_retries >= config.max_queue_length
    /\ TOGGLE_WRITE_FAIL
    /\ written = <<>>

\* The same with the two policies the test leaves at their defaults.
DiagnosticsScenarioRetrying ==
    /\ DiagnosticsScenario
    /\ config.on_queue_printing_fail = "TryUntilMaxRetries"
    /\ config.on_max_retries_reached = "Return"

\* N >= 1 messages were submitted by the one thread, N < max_queue_length, and
\* no drainer is active.
IdleAfterFewer == NoDrainer /\ nextId > 1 /\ nextId - 1 < config.max_queue_length

\* The queue holds max_queue_length messages: every submitted one, the rest
\* diagnostics.
FilledWithDiagnostics ==
    /\ Len(QUEUE) = config.max_queue_length
    /\ UserIds(QUEUE) = 1..(nextId - 1)
    /\ Cardinality({i \in 1..Len(QUEUE) : IsDiagnostic(QUEUE[i])}) =
           config.max_queue_length - (nextId - 1)

\* A diagnostic is inserted only where the queue has room after it, and the
\* step that inserts it loses no user message.
InsertedIntoSpareRoom ==
    DiagnosticInserted =>
        /\ Len(QUEUE') <= config.max_queue_length
        /\ UserIds(QUEUE) \subseteq UserIds(QUEUE')

\* C24 as stated: under the listed settings, once the drainer is idle after
\* N < M submissions the queue holds all N and M - N diagnostics; no diagnostic
\* is inserted into a full queue or displaces a user message.
DiagnosticsFillSpareCapacityAnyPolicy ==
    [][/\ (DiagnosticsScenario /\ IdleAfterFewer') => FilledWithDiagnostics'
       /\ InsertedIntoSpareRoom]_vars

\* C24, amended: the same where failed writes are retried
\* (TryUntilMaxRetries) and exhaustion returns (Return).
DiagnosticsFillSpareCapacity ==
    [][/\ (DiagnosticsScenarioRetrying /\ IdleAfterFewer') => FilledWithDiagnostics'
       /\ InsertedIntoSpareRoom]_vars

DiagnosticsFillSpareCapacityWitness ==
    /\ DiagnosticsScenarioRetrying
    /\ IdleAfterFewer
    /\ FilledWithDiagnostics
    /\ config.max_queue_length - (nextId - 1) >= 2

\* ---------------------------------------------------------------- the logging switch
\* The messages callers have submitted so far.
Submitted == {standard_ln(id) : id \in 1..(nextId - 1)}

\* C25: with allow_logging_print_failures = false every message in the queue,
\* or taken out of it by a drainer, is one a caller submitted: no failure of
\* any kind has put a diagnostic there.
LoggingSwitchOff ==
    ~config.allow_logging_print_failures =>
        /\ \A i \in 1..Len(QUEUE) : QUEUE[i] \in Submitted
        /\ \A t \in Threads : msg[t] # NoMsg => msg[t] \in Submitted

\* Logging is off, and a fast-path write, a drain write, a thread creation and
\* a log-file write have all failed: the caller drained synchronously, its
\* flush stopped on the flaky file with a message left.
LoggingSwitchOffWitness ==
    /\ ~config.allow_logging_print_failures
    /\ config.on_max_retries_reached = "WriteToDisk"
    /\ config.log_io_path = "flaky"
    /\ nextId = 2
    /\ pc[1] = "sync_reset"
    /\ QUEUE # <<>>
    /\ failed >= 2

\* ---------------------------------------------------------------- the disk flush
FlushPcs == {"flush_loop", "flush_write"}

\* Thread t leaves the file write of the flush (async_impl.rs:185-196).
FileWriteOk(t) == pc[t] = "flush_write" /\ pc'[t] = "flush_loop"
FileWriteErr(t) == pc[t] = "flush_write" /\ pc'[t] = AfterSession(t)

\* C26: in the flush the head of the queue is written to the file and then
\* removed; a failed file write ends the flush, writes nothing, removes
\* nothing, and puts at most the one diagnostic at the head, with logging on and
\* room in the queue; nobody else changes the queue meanwhile.
FlushInOrder ==
    [][\A t \in Threads :
          /\ FileWriteOk(t) =>
                 /\ QUEUE # <<>>
                 /\ logFile' = Append(logFile, Display(Head(QUEUE)))
                 /\ QUEUE' = Tail(QUEUE)
          /\ FileWriteErr(t) =>
                 /\ logFile' = logFile
                 /\ \/ QUEUE' = QUEUE
                    \/ /\ QUEUE' = <<error_ln(ErrLogFile)>> \o QUEUE
                       /\ config.allow_logging_print_failures
                       /\ Len(QUEUE) < config.max_queue_length
          /\ (pc[t] \in FlushPcs /\ pc'[t] = pc[t]) =>
                 QUEUE' = QUEUE /\ logFile' = logFile]_vars

\* A flush wrote one message, failed on the next and recorded the failure.
FlushInOrderWitness ==
    /\ Len(logFile) = 1
    /\ Len(QUEUE) = 2
    /\ QUEUE[1] = error_ln(ErrLogFile)
    /\ IsUser(QUEUE[2])

\* ---------------------------------------------------------------- loading from the environment
\* The parser load_all uses for a tunable.
from_str(name, s) ==
    CASE name \in {"max_retries", "max_queue_length"} -> usize_from_str(s)
      [] name = "allow_logging_print_failures" -> bool_from_str(s)
      [] name = "on_queue_printing_fail" -> On_QueuePrintingFail_from_str(s)
      [] name = "on_max_retries_reached" -> On_MaxRetriesReached_from_str(s)
      [] name = "log_io_path" -> String_from_str(s)
      [] name = "on_queue_full" -> On_QueueFull_from_str(s)

\* The variable of the tunable is present and its value parses.
Loads(name) == env[name].set /\ from_str(name, env[name].value).kind = "Ok"

\* What get returns for a tunable once the step is done; for the path, the
\* stored text.
Got(name) == IF name = "log_io_path" THEN log_io_path_get(CURRENT', "")
             ELSE Gets(CURRENT')[name]

\* C27: load_all replaces the value of a tunable only when its variable is
\* present and parses, and then by the parsed value; otherwise the stored value
\* stays and the result for that variable is the error (absent: VarError, no
\* parse: ParseError); what happens to one tunable depends on its own variable only.
BulkLoadLeavesUnsetUntouched ==
    [][call'.op = "load_all" =>
          \A name \in Tunables :
              /\ CURRENT'[name] # CURRENT[name] => Loads(name)
              /\ call'.result[name].kind = "Ok" =>
                     /\ Loads(name)
                     /\ call'.result[name] = from_str(name, env[name].value)
                     /\ Got(name) = from_str(name, env[name].value).value
              /\ ~Loads(name) =>
                     /\ CURRENT'[name] = CURRENT[name]
                     /\ call'.result[name].kind =
                            IF env[name].set THEN "ParseError" ELSE "VarError"
              /\ (Loads(name) /\ name # "log_io_path") => call'.result[name].kind = "Ok"]_vars

\* load_all has refused the text of one tunable and found the variable of
\* another absent; both hold the values set before.
BulkLoadLeavesUnsetUntouchedWitness ==
    /\ call.op = "load_all"
    /\ call.result["on_max_retries_reached"].kind = "ParseError"
    /\ call.result["max_queue_length"].kind = "VarError"
    /\ CURRENT.max_queue_length = 2
    /\ CURRENT.on_max_retries_reached = 1
    /\ CURRENT.log_io_path = "logs/full.txt"

\* ---------------------------------------------------------------- set and get
\* The step is a call of set for a tunable.
IsSet == call'.op = "set" /\ call' # call

\* C28 as stated: get after set(v) returns v for every tunable, the other
\* tunables keep their values, and no step but a call of set or load_all
\* changes a stored value.
SetThenGet ==
    [][/\ IsSet =>
              /\ Got(call'.name) = call'.arg
              /\ \A other \in Tunables \ {call'.name} : CURRENT'[other] = CURRENT[other]
       /\ call'.op = "none" => CURRENT' = CURRENT]_vars

\* C28, amended: the same for every set that did not return an error.
SetThenGetUnlessError ==
    [][/\ IsSet =>
              /\ (call'.name = "log_io_path" => call'.ret.kind = "Ok") =>
                     Got(call'.name) = call'.arg
              /\ \A other \in Tunables \ {call'.name} : CURRENT'[other] = CURRENT[other]
       /\ call'.op = "none" => CURRENT' = CURRENT]_vars

\* TryUntilMaxRetries has been set over a stored Return.
SetThenGetUnlessErrorWitness ==
    /\ call.op = "set"
    /\ call.name = "on_queue_printing_fail"
    /\ call.arg = "TryUntilMaxRetries"
    /\ config.on_queue_printing_fail = "TryUntilMaxRetries"
    /\ env["on_queue_printing_fail"].set

\* ---------------------------------------------------------------- the log path setter
\* log_io_path::set fails for new_value when the file system answers dir.
SetterFails(new_value, dir) ==
    ~parent(new_value).some \/ dir \in {"create_failed", "check_failed"}

\* C29: a failing log_io_path::set returns the error and leaves the stored
\* path as it was; after Ok get yields the path given; load_all reports a
\* failing setter as IOError and a working one as Ok.
LogPathSetter ==
    [][/\ (IsSet /\ call'.name = "log_io_path") =>
              /\ SetterFails(call'.arg, call'.dir) <=> call'.ret.kind # "Ok"
              /\ call'.ret.kind # "Ok" => CURRENT' = CURRENT
              /\ call'.ret.kind = "Ok" => log_io_path_get(CURRENT', "") = call'.arg
       /\ (call'.op = "load_all" /\ env["log_io_path"].set) =>
              /\ SetterFails(env["log_io_path"].value, call'.dir) <=>
                     call'.result["log_io_path"].kind = "IOError"
              /\ call'.result["log_io_path"].kind \in {"Ok", "IOError"}
              /\ call'.result["log_io_path"].kind = "IOError" =>
                     CURRENT'.log_io_path = CURRENT.log_io_path]_vars

\* The directory of a new path could not be created; the old path is still stored.
LogPathSetterWitness ==
    /\ call.op = "set"
    /\ call.name = "log_io_path"
    /\ call.arg = "logs/full.txt"
    /\ call.ret.kind = "create_failed"
    /\ CURRENT.log_io_path = "test.txt"

CreatorHoldsState(t, w) == pc[t] = "spawned" /\ stateLock = t /\ session[t].handle = w

\* Worker w has taken the queue lock in print_until_empty (async_impl.rs:121) at
\* least once.
HasBegunDraining(w) == pc[w] \notin {"unborn", "start_printing_queue", "print_until_empty"}

\* C31 as stated: a worker does not take the queue lock or dequeue a message
\* while the submitter that created it still holds the STATE lock.
StateLockReleasedBeforeDrain ==
    \A t \in Submitters, w \in Workers : CreatorHoldsState(t, w) => ~HasBegunDraining(w)

\* ---------------------------------------------------------------- lock nesting
\* Where a thread's next step is QUEUE.lock(): async_impl.rs:59, 121, 157, 181,
\* and 266 when diagnostics are allowed (47 is the step that begins a call).
QueueLockPcs ==
    {"insert_failed", "print_until_empty", "reinsert_retry", "reinsert_return",
     "flush_lock"} \cup
    (IF config.allow_logging_print_failures THEN {"spawn_failed"} ELSE {})

\* The step is one in which thread t locks the queue.
TakesQueueLock(t) ==
    \/ pc[t] \in QueueLockPcs /\ pc'[t] # pc[t]
    \/ t \in Submitters /\ callId[t] = None /\ callId'[t] # None

\* The step is one in which thread t locks the state: try_lock that succeeds
\* (async_impl.rs:84) or lock (107).
TakesStateLock(t) ==
    \/ pc[t] = "check_state" /\ pc'[t] = "state_locked"
    \/ pc[t] = "sync_reset" /\ pc'[t] # pc[t]

\* Thread t is blocked in lock(): the lock it asks for is held.
WaitsForLock(t) ==
    \/ pc[t] \in QueueLockPcs /\ queueLock # None
    \/ pc[t] = "sync_reset" /\ stateLock # None

\* Thread t is inside a call or is a live worker.
Active(t) == pc[t] \notin {"idle", "unborn", "finished", "panicked"}

\* C32: no thread holds the queue lock and the state lock at the same time, a
\* thread that holds one never asks for the other, and in no state is every
\* running thread waiting for a lock.
LocksNeverNested ==
    [][/\ \A t \in Threads :
             /\ ~(queueLock = t /\ stateLock = t)
             /\ TakesQueueLock(t) => stateLock # t
             /\ TakesStateLock(t) => queueLock # t
       /\ (\E t \in Threads : WaitsForLock(t)) =>
             \E u \in Threads : Active(u) /\ ~WaitsForLock(u) /\ ENABLED ThreadStep(u)]_vars

\* A caller in the synchronous fallback holds the queue lock for its flush, the
\* state lock being free, while another caller waits for the queue lock.
LocksNeverNestedWitness ==
    \E t, u \in Submitters :
        /\ t # u
        /\ queueLock = t
        /\ stateLock = None
        /\ PRINTING_STATE = Synchronous
        /\ pc[u] = "insert_failed"
        /\ WaitsForLock(u)

\* ---------------------------------------------------------------- reinsertion
\* Thread t runs reinsert_message (async_impl.rs:156-169) with the message whose
\* write failed.
Reinserts(t) == pc[t] \in {"reinsert_retry", "reinsert_return"} /\ pc'[t] # pc[t]

\* C33: reinsertion at length >= max_queue_length removes the tail and puts the
\* failed message at the head under KeepOldest, discards the failed message and
\* leaves the queue as it is under KeepNewest, and in both cases the length
\* does not grow; below max_queue_length the failed message is put at the head
\* of what the queue held (behind the diagnostic of this failure, if one is
\* recorded) and nothing is removed.
ReinsertionRespectsCapacity ==
    [][\A t \in Threads :
          Reinserts(t) =>
              IF Len(QUEUE) >= config.max_queue_length
              THEN /\ config.on_queue_full = "KeepOldest" =>
                          QUEUE' = <<msg[t]>> \o SubSeq(QUEUE, 1, Len(QUEUE) - 1)
                   /\ config.on_queue_full = "KeepNewest" => QUEUE' = QUEUE
                   /\ Len(QUEUE') <= Len(QUEUE)
              ELSE \/ QUEUE' = <<msg[t]>> \o QUEUE
                   \/ /\ QUEUE' = <<error_ln(ErrPrintQueue), msg[t]>> \o QUEUE
                      /\ config.allow_logging_print_failures
                      /\ Len(QUEUE) + 1 < config.max_queue_length]_vars

\* ---------------------------------------------------------------- draining to exhaustion
\* No write of the session of thread t has failed: a failed write either ends
\* the session or increments retries (async_impl.rs:136-149).
NoFailedWrite(t) == pc[t] \notin FailurePcs /\ session[t].retries = 0

\* The submissions the session of thread t had to serve: those in the queue when
\* it began and those put into the queue since.
ToServe(t) == UserIds(sessionStart[t].queue) \cup (queued \ sessionStart[t].queued)

\* C34 as stated: a session without a failed write ends only on finding the
\* queue empty, and every message put into the queue before that, also after the
\* session began, has been written.
DrainToExhaustion ==
    [][\A t \in Threads :
          (SessionEnds(t) /\ NoFailedWrite(t)) =>
              /\ QUEUE = <<>> /\ QUEUE' = <<>>
              /\ ToServe(t) \subseteq WrittenIds]_vars

\* C34, amended: the same, except for a message a later submission evicted
\* from the full queue under KeepNewest.
DrainToExhaustionUnlessEvicted ==
    [][\A t \in Threads :
          (SessionEnds(t) /\ NoFailedWrite(t)) =>
              /\ QUEUE = <<>> /\ QUEUE' = <<>>
              /\ ToServe(t) \subseteq (WrittenIds \cup dropped)
              /\ (ToServe(t) \cap dropped # {}) => config.on_queue_full = "KeepNewest"]_vars

\* A worker's session without a failed write has ended after writing a message
\* that was put into the queue after the session began.
DrainToExhaustionUnlessEvictedWitness ==
    \E w \in Workers :
        /\ pc[w] = "returned"
        /\ session[w].retries = 0
        /\ dropped = {}
        /\ QUEUE = <<>>
        /\ (queued \ sessionStart[w].queued) # {}
        /\ ToServe(w) \subseteq WrittenIds

\* ---------------------------------------------------------------- arbitration
\* C35: a submission that finds the queue non-empty goes on to check_state
\* whatever the overflow policy did with its message; check_state takes the
\* state lock when it is free, and then, the state not being busy, creates a
\* worker and records Threaded, or on a failed creation sets Synchronous and
\* drains on the calling thread.
ArbitratesRegardless ==
    [][\A t \in Submitters :
          /\ SubmitsToQueue(t) => pc'[t] = "check_state"
          /\ (pc[t] = "check_state" /\ pc'[t] # pc[t]) =>
                 IF stateLock = None
                 THEN pc'[t] = "state_locked" /\ stateLock' = t
                 ELSE pc'[t] = "idle"
          /\ (Arbitrates(t) /\ ~is_busy(PRINTING_STATE)) =>
                 \/ /\ pc'[t] = "spawned"
                    /\ \E w \in Workers : /\ pc[w] = "unborn"
                                          /\ pc'[w] = "start_printing_queue"
                                          /\ session'[t].handle = w
                 \/ /\ pc'[t] = "spawn_failed"
                    /\ PRINTING_STATE' = Synchronous
          /\ (pc[t] = "spawned" /\ pc'[t] # pc[t]) =>
                 PRINTING_STATE' = Threaded(session[t].handle)
          /\ (pc[t] = "spawn_failed" /\ pc'[t] # pc[t]) =>
                 pc'[t] = "start_printing_queue"]_vars

\* Under KeepOldest the message of a submission was discarded at the full queue,
\* and its call has created a worker for what the queue holds.
ArbitratesRegardlessWitness ==
    \E t \in Submitters :
        /\ config.on_queue_full = "KeepOldest"
        /\ pc[t] = "spawned"
        /\ callId[t] \in dropped
        /\ writesInCall[t] = 0
        /\ QUEUE # <<>>

\* ---------------------------------------------------------------- messages
\* The messages in the queue or with a thread.
Held == Range(QUEUE) \cup {msg[t] : t \in Threads}

\* What a stream or the file receives for message m: the content, then one
\* line feed if the flag is set.
Rendered(m) == [output |-> m.output, string |-> m.string,
                lf |-> IF m.should_append_line THEN 1 ELSE 0]

\* C36: standard and standard_ln make messages for Stdout, error and error_ln
\* for Stderr, the _ln constructors with the flag set and the others with it
\* clear; a message in the queue or with a thread stays as it was made; what is
\* written to a stream or to the log file is the content of the message
\* written, followed by one line feed exactly when its flag is set.
MessagesKeptAndRendered ==
    [][/\ nextId' # nextId =>
             \A m \in Held' :
                 m.string = nextId =>
                     /\ m.output = IF call'.op \in {"standard", "standard_ln"}
                                   THEN "Stdout" ELSE "Stderr"
                     /\ m.should_append_line = (call'.op \in {"standard_ln", "error_ln"})
       /\ \A m \in Held' :
             IsUser(m) => m \in Held \/ (m.string = nextId /\ nextId' # nextId)
       /\ written' # written =>
             \E t \in Threads :
                 /\ pc[t] \in {"try_write", "queue_write"}
                 /\ pc'[t] # pc[t]
                 /\ written' = Append(written, Rendered(msg[t]))
       /\ logFile' # logFile =>
             /\ QUEUE # <<>>
             /\ logFile' = Append(logFile, Rendered(QUEUE[1]))]_vars

\* A message made by error() failed on the fast path, was queued, failed again in
\* the drain session, was put back and then written to stderr without a line
\* feed.
MessagesKeptAndRenderedWitness ==
    /\ failed = 2
    /\ written = <<[output |-> "Stderr", string |-> 1, lf |-> 0]>>
    /\ QUEUE = <<>>

\* ---------------------------------------------------------------- conservation of messages
\* How often submission id occurs in a sequence of messages or renderings.
Occurrences(id, q) == Cardinality({i \in 1..Len(q) : q[i].string = id})

\* The places submission id is in: with a thread, in the queue, on a stream, in
\* the log file, or discarded by a capacity decision.
Places(id) ==
    Cardinality({t \in Threads : msg[t].string = id}) + Occurrences(id, QUEUE) +
    Occurrences(id, written) + Occurrences(id, logFile) +
    (IF id \in dropped THEN 1 ELSE 0)

WritesToStream(t) == pc[t] \in {"try_write", "queue_write"}

\* C38: at most one thread writes to the standard streams at a time; no
\* submitter is on the fast path while a drainer holds a message it took out of
\* the queue and has neither written nor put back.
NoWriteOvertakesDrainer ==
    /\ Cardinality({t \in Threads : WritesToStream(t)}) <= 1
    /\ \A t \in Submitters, d \in Threads :
           (pc[t] = "try_write" /\ InDrainLoop(d)) => msg[d] = NoMsg

\* ---------------------------------------------------------------- when the tunables are read
\* Thread t begins its drain session (async_impl.rs:115-117).
StartsSession(t) == pc[t] = "start_printing_queue" /\ pc'[t] # pc[t]

\* What reinsert_message makes of the queue with the tunables as they are now.
ReinsertedNow(q, m) ==
    LET q1 == IF Len(q) < config.max_queue_length THEN <<m>> \o q
              ELSE IF config.on_queue_full = "KeepOldest"
              THEN <<m>> \o SubSeq(q, 1, Len(q) - 1)
              ELSE q
    IN  IF config.allow_logging_print_failures /\ Len(q1) < config.max_queue_length
        THEN <<error_ln(ErrPrintQueue)>> \o q1
        ELSE q1

\* C39: a session reads max_retries when it starts and keeps that value, also
\* over a set of max_retries: the retry decision compares the counter with the
\* value read at the start.  The other tunables are read at each decision: the
\* failure policy at each failed write, the exhaustion policy when the handler
\* runs, capacity, overflow policy and the logging switch at each reinsertion.
MaxRetriesReadOnce ==
    [][\A t \in Threads :
          /\ StartsSession(t) => session'[t].max_retries = config.max_retries
          /\ (InDrainLoop(t) /\ InDrainLoop(t)') =>
                 session'[t].max_retries = session[t].max_retries
          /\ DecidesRetry(t) =>
                 pc'[t] = IF session[t].retries < session[t].max_retries
                          THEN "print_until_empty" ELSE "on_max_retries"
          /\ QueueWriteFails(t) =>
                 pc'[t] = IF config.on_queue_printing_fail = "TryUntilMaxRetries"
                          THEN "reinsert_retry" ELSE "reinsert_return"
          /\ LeavesHandler(t) =>
                 (pc'[t] = "flush_lock" =>
                      config.on_max_retries_reached = "WriteToDisk")
                 /\ (config.on_max_retries_reached = "Return" =>
                      pc'[t] = AfterSession(t))
          /\ Reinserts(t) => QUEUE' = ReinsertedNow(QUEUE, msg[t])]_vars

\* max_retries was set to 1 during a session that had read 0; the session went
\* to the exhaustion handler at its first failed write.
MaxRetriesReadOnceWitness ==
    \E t \in Threads :
        /\ pc[t] = "on_max_retries"
        /\ session[t].max_retries = 0
        /\ session[t].retries = 0
        /\ config.max_retries = 1
        /\ call = SetCall("max_retries", 1)

\* ---------------------------------------------------------------- the creator's state lock
\* C31, amended: no worker ever takes the STATE lock; the creator of a worker
\* can always go on, and its next step records the handle and releases the
\* STATE lock without touching the queue or its lock; while it holds the STATE
\* lock the worker it created can take its steps, so the worker is never
\* blocked by the lock of its creator.
WorkerNeverBlockedByCreator ==
    [][/\ \A w \in Workers : stateLock' # w
       /\ \A t \in Submitters :
             /\ (pc[t] = "spawned" /\ pc'[t] # pc[t]) =>
                    /\ stateLock = t /\ stateLock' = None
                    /\ PRINTING_STATE' = Threaded(session[t].handle)
                    /\ QUEUE' = QUEUE /\ queueLock' = queueLock
                    /\ pc'[t] = "idle"
             /\ \A w \in Workers :
                    CreatorHoldsState(t, w) =>
                        /\ ENABLED SetThreaded(t)
                        /\ (Active(w) /\ ~WaitsForLock(w)) => ENABLED ThreadStep(w)]_vars

\* The worker has taken a message out of the queue while its creator still
\* holds the STATE lock.
WorkerNeverBlockedByCreatorWitness ==
    \E t \in Submitters, w \in Workers :
        /\ CreatorHoldsState(t, w)
        /\ pc[w] = "queue_write"
        /\ IsUser(msg[w])

====
